---- MODULE Spec2Model ----
(***************************************************************************)
(* Verification model of the ADW workflow engine (wombyz/sprint-planner).  *)
(*                                                                         *)
(*   SpecTest    adw_test.py: the Test phase from the unit-test retry loop *)
(*               (run_tests_with_resolution) through the end-to-end retry  *)
(*               loop (run_e2e_tests_with_resolution) to the exit code.    *)
(*   SpecSched   mvp_parser.py: get_parallel_chunks over a chunk list.     *)
(*   SpecTrigger trigger_cron.py / trigger_webhook.py: poll cycles and     *)
(*               webhook deliveries against a changing issue tracker.      *)
(*                                                                         *)
(* Each specification drives its own variables and leaves the others at    *)
(* their initial values.                                                   *)
(***************************************************************************)
EXTENDS Integers, Sequences, FiniteSets, TLC

---------------------------------------------------------------------------
(* Bounds of the model *)

\* largest max_attempts a retry loop is called with
MaxAttempts == 3
\* largest number of items in a parsed unit-test batch
MaxTests == 3
\* largest number of end-to-end test files found for an issue
MaxE2E == 1
\* number of open issues in the repository the triggers watch
MaxIssues == 1
\* largest number of comments on one issue
MaxComments == 1
\* largest number of workflow launches the triggers make in one run
MaxLaunches == 3
\* largest number of keyword arguments in one ADWState.update call
MaxKwargs == 2
\* largest number of lines in the agent's output file
MaxMessages == 2

---------------------------------------------------------------------------
(* Variables *)

VARIABLES
    \* ---- adw_test.py ----
    pc,               \* position in main / the retry engines
    skip_e2e,         \* --skip-e2e flag (parse_args)
    max_attempts,     \* parameter of the running retry loop
    attempt,          \* local of the running retry loop
    results,          \* unit-test results: sequence of TestResult.passed
    passed_count,
    failed_count,
    test_response,    \* "none" | "ok" | "fail": test_response.success of the last /test call
    failed_tests,     \* list handed to resolve_failed_tests / resolve_failed_e2e_tests
    idx,              \* loop index inside the resolver function
    resolved_count,
    unresolved_count,
    e2e_files,        \* number of test files run_e2e_tests found for this attempt
    e2e_results,      \* sequence of [passed, error]
    e2e_passed_count,
    e2e_failed_count,
    previous_errors,
    fixed_errors,
    exit_code,        \* -1 while running, then the process exit status
    success_comment,  \* "All tests passed successfully!" was posted
    \* history of the running retry-loop invocation
    batches,          \* batch executions (run_tests / run_e2e_tests calls)
    resolver_calls,   \* resolver agent calls
    agent_error,      \* an agent call of a batch returned success=false
    err_resolver_calls, \* resolver calls made after such an agent-level error
    prev_failed,      \* failures reported by the attempt before the current one
    prev_resolved,    \* resolver successes in the round before the current attempt
    rounds            \* resolution rounds that have ended

testVars == <<pc, skip_e2e, max_attempts, attempt, results, passed_count,
              failed_count, test_response, failed_tests, idx, resolved_count,
              unresolved_count, e2e_files, e2e_results, e2e_passed_count,
              e2e_failed_count, previous_errors, fixed_errors, exit_code,
              success_comment, batches, resolver_calls, agent_error,
              err_resolver_calls, prev_failed, prev_resolved, rounds>>

    \* ---- mvp_parser.py: get_parallel_chunks ----
VARIABLES
    sched_pc,         \* "idle" | "loop" | "returned" | "raised"
    chunks,           \* the argument: sequence of [chunk_number, depends_on]
    execution_groups,
    executed,
    sched_result,     \* the returned list of waves, NoSchedule until a return
    remaining         \* the chunk numbers the ValueError names

schedVars == <<sched_pc, chunks, execution_groups, executed, sched_result,
               remaining>>

    \* ---- trigger_cron.py / trigger_webhook.py ----
VARIABLES
    latest_comment,     \* issue tracker: comments[-1] of each issue (id, body)
    processed_issues,   \* trigger_cron.py global
    issue_last_comment, \* trigger_cron.py global; 0 stands for no entry
    shutdown_requested, \* trigger_cron.py global
    \* history: launches per issue and sub-event identifier (the id of the
    \* latest comment the event carries, 0 for an event with no comment)
    cron_launches,      \* trigger_adw_workflow calls of the polling trigger
    webhook_launches    \* subprocess.Popen calls of the webhook trigger

trigVars == <<latest_comment, processed_issues, issue_last_comment,
              shutdown_requested, cron_launches, webhook_launches>>

    \* ---- state.py: ADWState ----
VARIABLES
    state,            \* the ADWState instance a script holds (adw_id, data)
    state_file,       \* content of agents/<TrackedRun>/adw_state.json
    store_op,         \* the last ADWState call and how it ended
    kwargs,           \* keyword arguments of the last update call
    prev_data         \* state.data before the last update call

storeVars == <<state, state_file, store_op, kwargs, prev_data>>

    \* ---- adw_plan_build.py, adw_plan_build_test.py and the phase scripts ----
VARIABLES
    run_pc,           \* the phase the controller waits for, or how it ended
    pipeline,         \* which controller script runs
    running,          \* the phase processes that are alive
    started,          \* the phases the controller has started
    phase_rc,         \* exit code of each phase, -1 while it has none
    pipeline_rc,      \* exit code of the controller, -1 while it has none
    saved_record,     \* the state file as the last finished phase left it
    env,              \* what the tools did in the phase that finished last
    resumed,          \* a phase was invoked by itself after the controller stopped
    events            \* what the phase that finished last did, in order

runVars == <<run_pc, pipeline, running, started, phase_rc, pipeline_rc,
             saved_record, env, resumed, events>>

    \* ---- state.py: a save and a load of one state file at the same time ----
VARIABLES
    writer_pc,        \* position of the process inside ADWState.save
    reader_pc,        \* position of the process inside ADWState.load
    load_result,      \* what load returned, once it has
    old_record,       \* the record in the file before the save
    new_record        \* the record the save writes

concVars == <<writer_pc, reader_pc, load_result, old_record, new_record>>

    \* ---- agent.py, git_ops.py, github.py: calls of external programs ----
VARIABLES
    agent_pc,         \* position of the caller: idle, waiting or returned
    call,             \* the function that runs the external program
    proc,             \* the external process: none, running or exited
    returncode,       \* result.returncode, -1 while the process has not exited
    transcript,       \* the lines the agent process wrote to the output file
    response          \* what the function gave back to its caller

agentVars == <<agent_pc, call, proc, returncode, transcript, response>>

    \* ---- workflow_ops.py: classify_issue ----
VARIABLES
    classifier_response, \* what execute_template gave back for /classify_issue
    classification       \* the (command, error_message) classify_issue returned

classifyVars == <<classifier_response, classification>>

    \* ---- adw_mvp_orchestrator.py ----
VARIABLES
    orch_pc,          \* idle | start | loop | summary | exited
    start_from,       \* --start-from (1 when absent)
    auto_merge,       \* --auto-merge
    gh_issues,        \* what gh issue list returns: the chunk label of each issue
    chunk_issues,     \* main's list of [number, chunk] after sorting and filtering
    loop_idx,         \* iterations of the for loop that have begun
    completed,
    failed_chunks,    \* main's list "failed"
    skipped,
    handled,          \* history: the chunk numbers whose iteration began
    orch_rc           \* exit code of the orchestrator, -1 while it has none

orchVars == <<orch_pc, start_from, auto_merge, gh_issues, chunk_issues, loop_idx,
              completed, failed_chunks, skipped, handled, orch_rc>>

vars == <<testVars, schedVars, trigVars, storeVars, runVars, concVars, agentVars,
          classifyVars, orchVars>>

otherThanTest == <<schedVars, trigVars, storeVars, runVars, concVars, agentVars,
    classifyVars, orchVars>>
otherThanSched == <<testVars, trigVars, storeVars, runVars, concVars, agentVars,
    classifyVars, orchVars>>
otherThanTrigger == <<testVars, schedVars, storeVars, runVars, concVars, agentVars,
    classifyVars, orchVars>>
otherThanStore == <<testVars, schedVars, trigVars, runVars, concVars, agentVars,
    classifyVars, orchVars>>
otherThanRun == <<testVars, schedVars, trigVars, state, store_op, kwargs, prev_data, concVars, agentVars,
    classifyVars, orchVars>>
otherThanConc == <<testVars, schedVars, trigVars, state, store_op, kwargs, prev_data, runVars, agentVars,
    classifyVars, orchVars>>
otherThanAgent == <<testVars, schedVars, trigVars, storeVars, runVars, concVars,
    classifyVars, orchVars>>
otherThanClassify == <<testVars, schedVars, trigVars, storeVars, runVars, concVars,
    agentVars, orchVars>>
otherThanOrch == <<testVars, schedVars, trigVars, storeVars, runVars, concVars,
    agentVars, classifyVars>>

Issues == 1..MaxIssues

\* sub-event identifiers: comment ids, and 0 for "no comment at all"
SubEventIds == 0..MaxComments

\* comments == []
NoComment == [id |-> 0, body |-> ""]

\* neither trigger has run and no issue has a comment
TriggerIdle ==
    /\ latest_comment = [i \in Issues |-> NoComment]
    /\ processed_issues = {}
    /\ issue_last_comment = [i \in Issues |-> 0]
    /\ shutdown_requested = FALSE
    /\ cron_launches = [i \in Issues |-> [c \in SubEventIds |-> 0]]
    /\ webhook_launches = [i \in Issues |-> [c \in SubEventIds |-> 0]]

\* Python's None
None == "None"

\* run identifiers: the run whose state file the model watches, and another
TrackedRun == "adw1"
RunIds == {"adw1", "adw2"}

\* no ADWState instance (a variable holding None)
NoState == [adw_id |-> None, data |-> [k \in {"adw_id"} |-> None]]

\* os.path.exists(state_path) is false
NoFile == [exists |-> FALSE]

\* update(): no keyword arguments
NoKwargs == [k \in {} |-> None]

\* no script holds an ADWState and the run has no state file
StoreIdle ==
    /\ state = NoState
    /\ state_file = NoFile
    /\ store_op = "idle"
    /\ kwargs = NoKwargs
    /\ prev_data = NoState.data

\* the phases of a pipeline, in order
Phases == <<"plan", "build", "test">>

PhaseNames == {Phases[i] : i \in 1..Len(Phases)}

\* no phase has exited
NoRc == [p \in PhaseNames |-> -1]

\* the tools of a phase have not run
NoCounts == [failed_count |-> 0, e2e_failed_count |-> 0]
NoEnv == [tools |-> "none", classify_ok |-> FALSE, dirty |-> FALSE,
          pr_exists |-> FALSE, counts |-> NoCounts]

\* no pipeline has been started
RunIdle ==
    /\ run_pc = "idle"
    /\ pipeline = "none"
    /\ running = {}
    /\ started = {}
    /\ phase_rc = NoRc
    /\ pipeline_rc = -1
    /\ saved_record = NoFile
    /\ env = NoEnv
    /\ resumed = FALSE
    /\ events = <<>>

\* load has not returned
NoResult == [returned |-> FALSE, state |-> NoState]

\* no save and no load is in progress
ConcIdle ==
    /\ writer_pc = "idle"
    /\ reader_pc = "idle"
    /\ load_result = NoResult
    /\ old_record = NoFile
    /\ new_record = NoFile

\* nothing has been returned
NoResponse == [outcome |-> "none", output |-> "none", success |-> FALSE, session_id |-> None]

\* no external program is being run
AgentIdle ==
    /\ agent_pc = "idle"
    /\ call = "none"
    /\ proc = "none"
    /\ returncode = -1
    /\ transcript = <<>>
    /\ response = NoResponse

\* classify_issue has not been called
NoClassification == [issue_command |-> "none", error |-> "none"]

ClassifyIdle ==
    /\ classifier_response = NoResponse
    /\ classification = NoClassification

\* the orchestrator is not running
OrchIdle ==
    /\ orch_pc = "idle"
    /\ start_from = 1
    /\ auto_merge = FALSE
    /\ gh_issues = <<>>
    /\ chunk_issues = <<>>
    /\ loop_idx = 0
    /\ completed = <<>>
    /\ failed_chunks = <<>>
    /\ skipped = <<>>
    /\ handled = <<>>
    /\ orch_rc = -1

\* the Test phase is not running
TestIdle ==
    /\ pc = "idle"
    /\ skip_e2e = FALSE
    /\ max_attempts = 0
    /\ attempt = 0
    /\ results = <<>>
    /\ passed_count = 0
    /\ failed_count = 0
    /\ test_response = "none"
    /\ failed_tests = <<>>
    /\ idx = 0
    /\ resolved_count = 0
    /\ unresolved_count = 0
    /\ e2e_files = 0
    /\ e2e_results = <<>>
    /\ e2e_passed_count = 0
    /\ e2e_failed_count = 0
    /\ previous_errors = {}
    /\ fixed_errors = {}
    /\ exit_code = -1
    /\ success_comment = FALSE
    /\ batches = 0
    /\ resolver_calls = 0
    /\ agent_error = FALSE
    /\ err_resolver_calls = 0
    /\ prev_failed = 0
    /\ prev_resolved = 0
    /\ rounds = 0

---------------------------------------------------------------------------
(* adw_test.py: data *)

\* E2ETestResult.error values.  "None" is Python's None; E1, E2 are messages
\* the test agent reports; the other three are built by execute_single_e2e_test.
NoError == "None"
ExecError == "Test execution error: X"
ParseError == "Result parsing error: X"
FormatError == "FORMAT_RETRY_NEEDED: Output indicates success but JSON parsing failed"
AgentErrors == {"E1", "E2"}
ErrorTexts == AgentErrors \cup {ExecError, ParseError, FormatError}

\* "FORMAT_RETRY_NEEDED" in t.error
HasFormatMarker(err) == err = FormatError

\* every list of unit-test results (TestResult.passed) within the bound
TestLists == UNION {[1..n -> BOOLEAN] : n \in 0..MaxTests}

\* what one /test agent call can come back with: agent-level failure, output
\* that does not parse as List[TestResult], or a parsed list
TestResponses ==
    {[success |-> FALSE, parses |-> FALSE, tests |-> <<>>],
     [success |-> TRUE, parses |-> FALSE, tests |-> <<>>]}
    \cup {[success |-> TRUE, parses |-> TRUE, tests |-> t] : t \in TestLists}

\* what one /test_e2e item can come back as (execute_single_e2e_test)
E2EOutcomes ==
    {[passed |-> TRUE, error |-> NoError]}
    \cup {[passed |-> FALSE, error |-> e] : e \in ErrorTexts \cup {NoError}}

CountPassed(ts) == Cardinality({i \in DOMAIN ts : ts[i]})

parse_test_results(resp) ==
    IF resp.parses
    THEN [results |-> resp.tests,
          passed_count |-> CountPassed(resp.tests),
          failed_count |-> Len(resp.tests) - CountPassed(resp.tests)]
    ELSE [results |-> <<>>, passed_count |-> 0, failed_count |-> 0]

---------------------------------------------------------------------------
(* adw_test.py: decisions of the two retry loops *)

\* mutant: the attempt counter is not advanced
NextAttempt_stuck(a) == a

\* attempt += 1
NextAttempt(a) == a + 1

\* if not test_response.success
AgentLevelError(resp) == ~resp.success

\* mutant: continue instead of break after an agent-level error
OnAgentError_continue == "unit_loop"

\* the break that follows an agent-level error of the /test call
OnAgentError == "unit_exit"

\* mutant: a batch without failures does not stop the loop
NoFailures_never(failed) == FALSE

\* if failed_count == 0
NoFailures(failed) == failed = 0

\* mutant: no attempt is taken for the last one
LastAttempt_never(a, m) == FALSE

\* if attempt == max_attempts
LastAttempt(a, m) == a = m

\* mutant: the unit loop retries whatever the resolver reports
UnitShouldRetry_always(resolved) == TRUE

\* unit loop: if resolved > 0 ... else break
UnitShouldRetry(resolved) == resolved > 0

\* mutant: the end-to-end loop retries on resolver successes only
E2EShouldRetry_resolved_only(resolved, fixed) == resolved > 0

\* end-to-end loop: if resolved > 0 ... elif fixed_errors ... else break
E2EShouldRetry(resolved, fixed) == resolved > 0 \/ fixed # {}

\* mutant: only the first failing test is handed to the resolver
UnitFailedTests_first(rs) ==
    LET sel == SelectSeq(rs, LAMBDA t : ~t)
    IN IF sel = <<>> THEN <<>> ELSE <<sel[1]>>

\* failed_tests = [test for test in results if not test.passed]
UnitFailedTests(rs) == SelectSeq(rs, LAMBDA t : ~t)

E2EFailedTests(rs) == SelectSeq(rs, LAMBDA t : ~t.passed)

\* mutant: no failure is taken for a formatting failure
FormatRetryTests_none(rs) == <<>>

\* format_retry_tests / real_failures of run_e2e_tests_with_resolution
FormatRetryTests(rs) ==
    SelectSeq(E2EFailedTests(rs),
              LAMBDA t : t.error # NoError /\ HasFormatMarker(t.error))

RealFailures(rs) ==
    SelectSeq(E2EFailedTests(rs),
              LAMBDA t : t.error = NoError \/ ~HasFormatMarker(t.error))

\* current_errors = {test.error for test in results if not test.passed and test.error}
CurrentErrors(rs) ==
    {rs[i].error : i \in {j \in DOMAIN rs : ~rs[j].passed /\ rs[j].error # NoError}}

\* mutant: a failing item does not stop the batch
StopBatch_at_end(out, n, files) == n >= files

\* run_e2e_tests: break on the first failure, or the for loop is exhausted
StopBatch(out, n, files) == ~out.passed \/ n >= files

E2ECountPassed(rs) == Cardinality({i \in DOMAIN rs : rs[i].passed})

\* the locals of the retry functions and the history of one invocation, as
\* they are when a retry function is entered or has returned
ClearedLocals ==
    /\ attempt' = 0
    /\ failed_tests' = <<>>
    /\ idx' = 0
    /\ resolved_count' = 0
    /\ unresolved_count' = 0
    /\ e2e_files' = 0
    /\ previous_errors' = {}
    /\ fixed_errors' = {}
    /\ batches' = 0
    /\ resolver_calls' = 0
    /\ agent_error' = FALSE
    /\ err_resolver_calls' = 0
    /\ prev_failed' = 0
    /\ prev_resolved' = 0
    /\ rounds' = 0

e2eVars == <<e2e_files, e2e_results, e2e_passed_count, e2e_failed_count,
             previous_errors, fixed_errors>>
unitResultVars == <<results, passed_count, failed_count, test_response>>
resolveVars == <<failed_tests, idx, resolved_count, unresolved_count>>
mainVars == <<skip_e2e, exit_code, success_comment>>
roundHistory == <<prev_failed, prev_resolved, rounds>>
callHistory == <<resolver_calls, agent_error, err_resolver_calls>>

---------------------------------------------------------------------------
(* adw_test.py: run_tests_with_resolution *)

\* one pass of the while body up to the resolution call (lines 479-524)
RunTestsBatch ==
    /\ pc = "unit_loop"
    /\ attempt < max_attempts
    /\ \E resp \in TestResponses :
         LET a == NextAttempt(attempt)
             p == parse_test_results(resp)
         IN /\ attempt' = a
            /\ batches' = batches + 1
            /\ test_response' = IF resp.success THEN "ok" ELSE "fail"
            /\ agent_error' = (agent_error \/ ~resp.success)
            /\ IF AgentLevelError(resp)
               THEN /\ pc' = OnAgentError
                    /\ UNCHANGED <<results, passed_count, failed_count, resolveVars>>
               ELSE /\ results' = p.results
                    /\ passed_count' = p.passed_count
                    /\ failed_count' = p.failed_count
                    /\ IF NoFailures(p.failed_count) \/ LastAttempt(a, max_attempts)
                       THEN /\ pc' = "unit_exit"
                            /\ UNCHANGED resolveVars
                       ELSE /\ pc' = "unit_resolve"
                            /\ failed_tests' = UnitFailedTests(p.results)
                            /\ idx' = 0
                            /\ resolved_count' = 0
                            /\ unresolved_count' = 0
    /\ UNCHANGED <<max_attempts, e2eVars, mainVars, resolver_calls,
                   err_resolver_calls, roundHistory>>
    /\ UNCHANGED otherThanTest

\* one iteration of the loop of resolve_failed_tests: one resolver call
ResolveFailedTest ==
    /\ pc = "unit_resolve"
    /\ idx < Len(failed_tests)
    /\ \E ok \in BOOLEAN :
         /\ resolved_count' = resolved_count + (IF ok THEN 1 ELSE 0)
         /\ unresolved_count' = unresolved_count + (IF ok THEN 0 ELSE 1)
    /\ idx' = idx + 1
    /\ resolver_calls' = resolver_calls + 1
    /\ err_resolver_calls' =
         err_resolver_calls + (IF agent_error THEN 1 ELSE 0)
    /\ UNCHANGED <<pc, max_attempts, attempt, unitResultVars, failed_tests,
                   e2eVars, mainVars, batches, agent_error, roundHistory>>
    /\ UNCHANGED otherThanTest

\* resolve_failed_tests returns; the loop retries or stops (lines 527-553)
ResolveFailedTestsDone ==
    /\ pc = "unit_resolve"
    /\ idx >= Len(failed_tests)
    /\ pc' = IF UnitShouldRetry(resolved_count) THEN "unit_loop" ELSE "unit_exit"
    /\ prev_failed' = failed_count
    /\ prev_resolved' = resolved_count
    /\ rounds' = rounds + 1
    /\ UNCHANGED <<max_attempts, attempt, unitResultVars, resolveVars, e2eVars,
                   mainVars, batches, callHistory>>
    /\ UNCHANGED otherThanTest

\* the while condition is false
UnitLoopEnd ==
    /\ pc = "unit_loop"
    /\ ~(attempt < max_attempts)
    /\ pc' = "unit_exit"
    /\ UNCHANGED <<max_attempts, attempt, unitResultVars, resolveVars, e2eVars,
                   mainVars, batches, callHistory, roundHistory>>
    /\ UNCHANGED otherThanTest

\* return results, passed_count, failed_count, test_response
UnitReturn ==
    /\ pc = "unit_exit"
    /\ pc' = "main_unit_done"
    /\ max_attempts' = 0
    /\ ClearedLocals
    /\ UNCHANGED <<unitResultVars, e2e_results, e2e_passed_count,
                   e2e_failed_count, mainVars>>
    /\ UNCHANGED otherThanTest

---------------------------------------------------------------------------
(* adw_test.py: run_e2e_tests_with_resolution *)

\* attempt += 1 and the start of run_e2e_tests: the test files of the issue
\* are looked up; none found returns [] at once (lines 975-690)
RunE2EBatch ==
    /\ pc = "e2e_loop"
    /\ attempt < max_attempts
    /\ attempt' = NextAttempt(attempt)
    /\ batches' = batches + 1
    /\ \E n \in 0..MaxE2E :
         /\ e2e_files' = n
         /\ pc' = IF n = 0 THEN "e2e_check" ELSE "e2e_items"
    /\ e2e_results' = <<>>
    /\ UNCHANGED <<max_attempts, unitResultVars, resolveVars, e2e_passed_count,
                   e2e_failed_count, previous_errors, fixed_errors, mainVars,
                   callHistory, roundHistory>>
    /\ UNCHANGED otherThanTest

\* one iteration of the loop of run_e2e_tests: execute_single_e2e_test on the
\* next file, stopping at the first failing item (lines 697-707)
ExecuteSingleE2ETest ==
    /\ pc = "e2e_items"
    /\ \E out \in E2EOutcomes :
         /\ e2e_results' = Append(e2e_results, out)
         /\ agent_error' = (agent_error \/ out.error = ExecError)
         /\ pc' = IF StopBatch(out, Len(e2e_results) + 1, e2e_files)
                  THEN "e2e_check"
                  ELSE "e2e_items"
    /\ UNCHANGED <<max_attempts, attempt, unitResultVars, resolveVars, e2e_files,
                   e2e_passed_count, e2e_failed_count, previous_errors,
                   fixed_errors, mainVars, batches, resolver_calls,
                   err_resolver_calls, roundHistory>>
    /\ UNCHANGED otherThanTest

\* the while body after run_e2e_tests returned, up to the resolution call
\* (lines 982-1058)
CheckE2EResults ==
    /\ pc = "e2e_check"
    /\ IF e2e_results = <<>>
       THEN /\ pc' = "e2e_exit"
            /\ UNCHANGED <<e2e_passed_count, e2e_failed_count, previous_errors,
                           fixed_errors, resolveVars>>
       ELSE LET passed == E2ECountPassed(e2e_results)
                failed == Len(e2e_results) - passed
                current_errors == CurrentErrors(e2e_results)
            IN /\ e2e_passed_count' = passed
               /\ e2e_failed_count' = failed
               /\ IF NoFailures(failed)
                  THEN /\ pc' = "e2e_exit"
                       /\ UNCHANGED <<previous_errors, fixed_errors, resolveVars>>
                  ELSE /\ fixed_errors' = previous_errors \ current_errors
                       /\ previous_errors' = current_errors
                       /\ IF LastAttempt(attempt, max_attempts)
                          THEN /\ pc' = "e2e_exit"
                               /\ UNCHANGED resolveVars
                          ELSE IF FormatRetryTests(e2e_results) # <<>>
                          THEN /\ pc' = "e2e_loop"
                               /\ UNCHANGED resolveVars
                          ELSE /\ pc' = "e2e_resolve"
                               /\ failed_tests' = RealFailures(e2e_results)
                               /\ idx' = 0
                               /\ resolved_count' = 0
                               /\ unresolved_count' = 0
    /\ UNCHANGED <<max_attempts, attempt, unitResultVars, e2e_files, e2e_results,
                   mainVars, batches, callHistory, roundHistory>>
    /\ UNCHANGED otherThanTest

\* one iteration of the loop of resolve_failed_e2e_tests: one resolver call
ResolveFailedE2ETest ==
    /\ pc = "e2e_resolve"
    /\ idx < Len(failed_tests)
    /\ \E ok \in BOOLEAN :
         /\ resolved_count' = resolved_count + (IF ok THEN 1 ELSE 0)
         /\ unresolved_count' = unresolved_count + (IF ok THEN 0 ELSE 1)
    /\ idx' = idx + 1
    /\ resolver_calls' = resolver_calls + 1
    /\ err_resolver_calls' =
         err_resolver_calls + (IF agent_error THEN 1 ELSE 0)
    /\ UNCHANGED <<pc, max_attempts, attempt, unitResultVars, failed_tests,
                   e2eVars, mainVars, batches, agent_error, roundHistory>>
    /\ UNCHANGED otherThanTest

\* resolve_failed_e2e_tests returns; the loop retries or stops (lines 1061-1102)
ResolveFailedE2ETestsDone ==
    /\ pc = "e2e_resolve"
    /\ idx >= Len(failed_tests)
    /\ pc' = IF E2EShouldRetry(resolved_count, fixed_errors)
             THEN "e2e_loop"
             ELSE "e2e_exit"
    /\ prev_failed' = e2e_failed_count
    /\ prev_resolved' = resolved_count
    /\ rounds' = rounds + 1
    /\ UNCHANGED <<max_attempts, attempt, unitResultVars, resolveVars, e2eVars,
                   mainVars, batches, callHistory>>
    /\ UNCHANGED otherThanTest

\* the while condition is false
E2ELoopEnd ==
    /\ pc = "e2e_loop"
    /\ ~(attempt < max_attempts)
    /\ pc' = "e2e_exit"
    /\ UNCHANGED <<max_attempts, attempt, unitResultVars, resolveVars, e2eVars,
                   mainVars, batches, callHistory, roundHistory>>
    /\ UNCHANGED otherThanTest

\* return results, passed_count, failed_count
E2EReturn ==
    /\ pc = "e2e_exit"
    /\ pc' = "main_commit"
    /\ max_attempts' = 0
    /\ ClearedLocals
    /\ UNCHANGED <<unitResultVars, e2e_results, e2e_passed_count,
                   e2e_failed_count, mainVars>>
    /\ UNCHANGED otherThanTest

---------------------------------------------------------------------------
(* adw_test.py: main, from the unit-test run to the exit code *)

\* lines 1219-1267: skip the end-to-end tests, or call
\* run_e2e_tests_with_resolution
MainAfterUnitTests ==
    /\ pc = "main_unit_done"
    /\ IF failed_count > 0 \/ skip_e2e
       THEN /\ pc' = "main_commit"
            /\ UNCHANGED max_attempts
       ELSE /\ pc' = "e2e_loop"
            /\ max_attempts' \in 0..MaxAttempts
    /\ e2e_results' = <<>>
    /\ e2e_passed_count' = 0
    /\ e2e_failed_count' = 0
    /\ UNCHANGED <<attempt, unitResultVars, resolveVars, e2e_files,
                   previous_errors, fixed_errors, mainVars, batches,
                   callHistory, roundHistory>>
    /\ UNCHANGED otherThanTest

\* lines 1335-1358: the exit code and the final comment
MainExit ==
    /\ pc = "main_commit"
    /\ LET total_failures == failed_count + e2e_failed_count
       IN /\ exit_code' = IF total_failures > 0 THEN 1 ELSE 0
          /\ success_comment' = ~(total_failures > 0)
    /\ pc' = "exited"
    /\ UNCHANGED <<skip_e2e, max_attempts, attempt, unitResultVars, resolveVars,
                   e2eVars, batches, callHistory, roundHistory>>
    /\ UNCHANGED otherThanTest

---------------------------------------------------------------------------
(* mvp_parser.py: get_parallel_chunks *)

\* largest number of chunks in a specification document
MaxChunks == 3

\* the value of sched_result while nothing has been returned
NoSchedule == <<"none">>

\* Chunk lists as parse_mvp_spec can hand them over: chunk i of the document
\* carries number i; depends_on is any set of numbers a text can name (the
\* explicit markers are free text, so a number may name no chunk, or the
\* chunk itself).
ChunkList(n, d) == [i \in 1..n |-> [chunk_number |-> i, depends_on |-> d[i]]]

\* mutant: chunks already executed are not skipped
NotExecuted_all(c, ex) == TRUE

\* if chunk.chunk_number in executed: continue
NotExecuted(c, ex) == c.chunk_number \notin ex

\* mutant: dependencies are not looked at
DepsSatisfied_all(c, ex) == TRUE

\* all(dep in executed for dep in chunk.depends_on)
DepsSatisfied(c, ex) == \A dep \in c.depends_on : dep \in ex

ChunkNumbersOf(cs) == [i \in DOMAIN cs |-> cs[i].chunk_number]

\* mutant: only the first ready chunk is taken into the wave
ReadyChunks_first(cs, ex) ==
    LET sel == SelectSeq(cs, LAMBDA c : NotExecuted(c, ex) /\ DepsSatisfied(c, ex))
    IN IF sel = <<>> THEN <<>> ELSE <<sel[1].chunk_number>>

\* the for loop building ready_chunks
ReadyChunks(cs, ex) ==
    ChunkNumbersOf(SelectSeq(cs, LAMBDA c : NotExecuted(c, ex) /\ DepsSatisfied(c, ex)))

\* mutant: the error names every chunk of the document
Remaining_all(cs, ex) == ChunkNumbersOf(cs)

\* remaining = [c.chunk_number for c in chunks if c.chunk_number not in executed]
Remaining(cs, ex) ==
    ChunkNumbersOf(SelectSeq(cs, LAMBDA c : c.chunk_number \notin ex))

SeqRange(q) == {q[i] : i \in DOMAIN q}

\* one pass of the while body that finds ready chunks (lines 274-292)
ScheduleWave ==
    /\ sched_pc = "loop"
    /\ Cardinality(executed) < Len(chunks)
    /\ LET ready_chunks == ReadyChunks(chunks, executed)
       IN /\ ready_chunks # <<>>
          /\ execution_groups' = Append(execution_groups, ready_chunks)
          /\ executed' = executed \cup SeqRange(ready_chunks)
    /\ UNCHANGED <<sched_pc, chunks, sched_result, remaining>>
    /\ UNCHANGED otherThanSched

\* one pass of the while body that finds none: raise ValueError (lines 286-289)
RaiseCircularDependency ==
    /\ sched_pc = "loop"
    /\ Cardinality(executed) < Len(chunks)
    /\ ReadyChunks(chunks, executed) = <<>>
    /\ remaining' = Remaining(chunks, executed)
    /\ sched_pc' = "raised"
    /\ UNCHANGED <<chunks, execution_groups, executed, sched_result>>
    /\ UNCHANGED otherThanSched

\* the while condition is false: return execution_groups (line 294)
ScheduleReturn ==
    /\ sched_pc = "loop"
    /\ ~(Cardinality(executed) < Len(chunks))
    /\ sched_result' = execution_groups
    /\ sched_pc' = "returned"
    /\ UNCHANGED <<chunks, execution_groups, executed, remaining>>
    /\ UNCHANGED otherThanSched

SchedIdle ==
    /\ sched_pc = "idle"
    /\ chunks = <<>>
    /\ execution_groups = <<>>
    /\ executed = {}
    /\ sched_result = NoSchedule
    /\ remaining = <<>>

InitSched ==
    /\ TestIdle
    /\ TriggerIdle
    /\ StoreIdle
    /\ RunIdle
    /\ ConcIdle
    /\ AgentIdle
    /\ ClassifyIdle
    /\ OrchIdle
    /\ sched_pc = "loop"
    /\ \E n \in 0..MaxChunks : \E d \in [1..n -> SUBSET (1..MaxChunks)] :
           chunks = ChunkList(n, d)
    /\ execution_groups = <<>>
    /\ executed = {}
    /\ sched_result = NoSchedule
    /\ remaining = <<>>

NextSched ==
    \/ ScheduleWave
    \/ RaiseCircularDependency
    \/ ScheduleReturn

SpecSched == InitSched /\ [][NextSched]_vars

---------------------------------------------------------------------------
(* Properties of the scheduler *)

ChunkNumbers == {chunks[i].chunk_number : i \in DOMAIN chunks}

DependsOn(n) ==
    UNION {chunks[i].depends_on : i \in {j \in DOMAIN chunks : chunks[j].chunk_number = n}}

\* a non-empty set of chunks each of which depends on a chunk of the set
\* holds a cycle, and every cycle is such a set
CyclicSets ==
    {S \in SUBSET ChunkNumbers : S # {} /\ \A n \in S : DependsOn(n) \cap S # {}}

HasCycle == CyclicSets # {}

\* the depends_on edges form a DAG over the chunks of the document
IsDAG ==
    /\ \A n \in ChunkNumbers : DependsOn(n) \subseteq ChunkNumbers
    /\ ~HasCycle

Max(S) == CHOOSE x \in S : \A y \in S : y <= x

\* number of chunks on the longest dependency path that ends in chunk n
RECURSIVE PathLength(_)
PathLength(n) == 1 + Max({0} \cup {PathLength(d) : d \in DependsOn(n)})

LongestPath == Max({0} \cup {PathLength(n) : n \in ChunkNumbers})

\* the positions <<wave, place>> at which chunk n stands in a schedule
Places(sched, n) ==
    {w \in {<<i, j>> : i \in DOMAIN sched, j \in 1..MaxChunks + 1} :
        w[2] \in DOMAIN sched[w[1]] /\ sched[w[1]][w[2]] = n}

WaveOf(sched, n) == CHOOSE i \in DOMAIN sched : n \in SeqRange(sched[i])

C7_DepsInEarlierWaves ==
    sched_pc = "returned"
        => \A n \in ChunkNumbers : \A d \in DependsOn(n) :
               /\ \E i \in DOMAIN sched_result : d \in SeqRange(sched_result[i])
               /\ WaveOf(sched_result, d) < WaveOf(sched_result, n)

\* C7 witness: a returned schedule for a chunk with two dependencies that
\* stand in different waves.
C7_Witness ==
    /\ sched_pc = "returned"
    /\ \E n \in ChunkNumbers : \E d1, d2 \in DependsOn(n) :
           WaveOf(sched_result, d1) < WaveOf(sched_result, d2)

ThreeCycleNamed ==
    (/\ sched_pc = "raised"
     /\ Len(chunks) = 3
     /\ chunks[1].depends_on = {3}
     /\ chunks[2].depends_on = {1}
     /\ chunks[3].depends_on = {2})
        => remaining = <<1, 2, 3>>

\* C9: when the edges hold a cycle the scheduler raises, the error names
\* exactly the chunks that were not scheduled, among them every chunk of
\* every cycle, and no schedule is returned.
C9_CycleRaises ==
    (sched_pc \in {"returned", "raised"} /\ HasCycle)
        => (/\ sched_pc = "raised"
            /\ sched_result = NoSchedule
            /\ remaining # <<>>
            /\ SeqRange(remaining) = ChunkNumbers \ executed
            /\ \A S \in CyclicSets : S \subseteq SeqRange(remaining)
            /\ ThreeCycleNamed)

\* C9 witness: chunk 1 is scheduled, chunks 2 and 3 depend on each other and
\* are the ones the error names.
C9_Witness ==
    /\ sched_pc = "raised"
    /\ HasCycle
    /\ executed = {1}
    /\ remaining = <<2, 3>>

---------------------------------------------------------------------------
(* Specification of the Test phase *)

InitTest ==
    /\ SchedIdle
    /\ TriggerIdle
    /\ StoreIdle
    /\ RunIdle
    /\ ConcIdle
    /\ AgentIdle
    /\ ClassifyIdle
    /\ OrchIdle
    /\ pc = "unit_loop"
    /\ skip_e2e \in BOOLEAN
    /\ max_attempts \in 0..MaxAttempts
    /\ attempt = 0
    /\ results = <<>>
    /\ passed_count = 0
    /\ failed_count = 0
    /\ test_response = "none"
    /\ failed_tests = <<>>
    /\ idx = 0
    /\ resolved_count = 0
    /\ unresolved_count = 0
    /\ e2e_files = 0
    /\ e2e_results = <<>>
    /\ e2e_passed_count = 0
    /\ e2e_failed_count = 0
    /\ previous_errors = {}
    /\ fixed_errors = {}
    /\ exit_code = -1
    /\ success_comment = FALSE
    /\ batches = 0
    /\ resolver_calls = 0
    /\ agent_error = FALSE
    /\ err_resolver_calls = 0
    /\ prev_failed = 0
    /\ prev_resolved = 0
    /\ rounds = 0

NextTest ==
    \/ RunTestsBatch
    \/ ResolveFailedTest
    \/ ResolveFailedTestsDone
    \/ UnitLoopEnd
    \/ UnitReturn
    \/ MainAfterUnitTests
    \/ RunE2EBatch
    \/ ExecuteSingleE2ETest
    \/ CheckE2EResults
    \/ ResolveFailedE2ETest
    \/ ResolveFailedE2ETestsDone
    \/ E2ELoopEnd
    \/ E2EReturn
    \/ MainExit

SpecTest == InitTest /\ [][NextTest]_vars

\* the phase is one sequential process whose agent and subprocess calls all
\* return: it always takes its next step
FairSpecTest == SpecTest /\ WF_vars(NextTest)

---------------------------------------------------------------------------
(* Properties of the retry engines *)

UnitPcs == {"unit_loop", "unit_resolve", "unit_exit"}
E2EPcs == {"e2e_loop", "e2e_items", "e2e_check", "e2e_resolve", "e2e_exit"}

\* C1: whatever the batch runner and the resolver answer, neither retry loop
\* executes more than max_attempts batches, and each loop that is entered
\* reaches its return.
C1_RetryTerminates ==
    /\ [](batches <= max_attempts)
    /\ (pc = "unit_loop") ~> (pc = "unit_exit")
    /\ (pc = "e2e_loop") ~> (pc = "e2e_exit")

\* C1 witness: every permitted attempt was used, and the last one reported
\* more failures than the one before it (a regression after resolution).
C1_Witness ==
    /\ pc = "unit_exit"
    /\ max_attempts >= 2
    /\ batches = max_attempts
    /\ prev_failed >= 1
    /\ failed_count > prev_failed

\* C2 (as claimed): when the /test agent call itself fails, the Test phase
\* ends with a non-zero exit code and without the "all tests passed" comment.
C2_AgentErrorFailsPhase ==
    (pc = "exited" /\ test_response = "fail")
        => (exit_code # 0 /\ ~success_comment)

C4_ResolvedThenPass ==
    (/\ pc \in UnitPcs
     /\ attempt = 2
     /\ test_response = "ok"
     /\ failed_count = 0
     /\ prev_failed >= 1
     /\ prev_resolved = prev_failed)
        => (/\ pc = "unit_exit"
            /\ batches = 2
            /\ resolver_calls = prev_failed)

\* C4 witness: a batch of 3 items; two failures in attempt 1, both resolved,
\* none in attempt 2.
C4_Witness ==
    /\ pc = "unit_exit"
    /\ attempt = 2
    /\ max_attempts > 2
    /\ test_response = "ok"
    /\ failed_count = 0
    /\ passed_count = 3
    /\ prev_failed = 2
    /\ prev_resolved = 2
    /\ resolver_calls = 2

\* C5: a resolution round that ends with no resolver success and no error of
\* the previous attempt gone stops the loop failing, and the stopped loop
\* returns without another batch execution.
C5_NoProgressStops ==
    /\ [][(/\ pc \in {"unit_resolve", "e2e_resolve"}
           /\ idx >= Len(failed_tests)
           /\ resolved_count = 0
           /\ fixed_errors = {})
              => (/\ pc' = (IF pc = "unit_resolve" THEN "unit_exit" ELSE "e2e_exit")
                  /\ batches' = batches
                  /\ failed_count' = failed_count
                  /\ e2e_failed_count' = e2e_failed_count
                  /\ failed_count + e2e_failed_count > 0)]_vars
    /\ [][pc = "unit_exit" => pc' = "main_unit_done"]_vars
    /\ [][pc = "e2e_exit" => pc' = "main_commit"]_vars

\* C5 witness: max_attempts >= 2, attempt 1 reported a single failure, the
\* resolver did not fix it, and the loop stopped after attempt 1.
C5_Witness ==
    /\ pc = "unit_exit"
    /\ max_attempts >= 2
    /\ attempt = 1
    /\ batches = 1
    /\ failed_count = 1
    /\ resolver_calls = 1
    /\ resolved_count = 0

---------------------------------------------------------------------------
(* trigger_cron.py and trigger_webhook.py *)

\* comment bodies after .lower().strip(): the two polling keywords and a
\* comment carrying the bot identifier
CommentBodies == {"adw", "adw_test", "[ADW-BOT]"}

\* issue bodies of an "opened" event: with and without an "adw_" marker
IssueBodies == {"adw_plan", "plain"}

\* AVAILABLE_WORKFLOWS
AVAILABLE_WORKFLOWS ==
    {"adw_plan", "adw_build", "adw_test", "adw_plan_build", "adw_plan_build_test"}

\* workflow is None
NoWorkflow == "none"

\* f[lo] + ... + f[hi]
RECURSIVE SumOver(_, _, _)
SumOver(f, lo, hi) == IF hi < lo THEN 0 ELSE f[hi] + SumOver(f, lo, hi - 1)

CronLaunchesOf(i) == SumOver(cron_launches[i], 0, MaxComments)
WebhookLaunchesOf(i) == SumOver(webhook_launches[i], 0, MaxComments)
TotalLaunches ==
    SumOver([i \in Issues |-> CronLaunchesOf(i) + WebhookLaunchesOf(i)],
            1, MaxIssues)

\* mutant: no comment counts as already processed
AlreadyProcessedComment_never(last_processed_comment, comment_id) == FALSE

\* if last_processed_comment == comment_id
AlreadyProcessedComment(last_processed_comment, comment_id) ==
    last_processed_comment = comment_id

\* should_process_issue, given issue_last_comment.get(issue_number) and the
\* latest of the fetched comments; last_comment is the entry of
\* issue_last_comment after the call
should_process_issue(last_processed_comment, comment) ==
    IF comment = NoComment
    THEN [should_process |-> TRUE, include_tests |-> FALSE,
          last_comment |-> last_processed_comment]
    ELSE IF AlreadyProcessedComment(last_processed_comment, comment.id)
    THEN [should_process |-> FALSE, include_tests |-> FALSE,
          last_comment |-> last_processed_comment]
    ELSE IF comment.body = "adw_test"
    THEN [should_process |-> TRUE, include_tests |-> TRUE,
          last_comment |-> comment.id]
    ELSE IF comment.body = "adw"
    THEN [should_process |-> TRUE, include_tests |-> FALSE,
          last_comment |-> comment.id]
    ELSE [should_process |-> FALSE, include_tests |-> FALSE,
          last_comment |-> last_processed_comment]

\* ADW_BOT_IDENTIFIER in comment_body
HasBotIdentifier(body) == body = "[ADW-BOT]"

\* "adw_" in body.lower()
HasAdwMarker(body) == body \in {"adw_test", "adw_plan"}

\* One poll cycle.  issues is what fetch_open_issues returns (empty on an
\* error), fetched the issues whose comments could be read
\* (fetch_issue_comments returns [] on an error), cut the issue of the list
\* (newest issue first) at which a shutdown signal stops the launches (0:
\* no signal), and succeeded the launches that came back with return code 0.
check_and_process_issues ==
    /\ ~shutdown_requested
    /\ \E issues \in SUBSET Issues :
       \E fetched \in SUBSET (issues \ processed_issues) :
         LET checked == issues \ processed_issues
             comments(i) == IF i \in fetched THEN latest_comment[i] ELSE NoComment
             verdict(i) == should_process_issue(issue_last_comment[i], comments(i))
             new_qualifying_issues == {i \in checked : verdict(i).should_process}
         IN \E cut \in {0} \cup new_qualifying_issues :
            LET triggered == {i \in new_qualifying_issues : i > cut}
            IN
            /\ TotalLaunches + Cardinality(triggered) <= MaxLaunches
            /\ \E succeeded \in SUBSET triggered :
                 /\ issue_last_comment' =
                        [i \in Issues |-> IF i \in checked
                                          THEN verdict(i).last_comment
                                          ELSE issue_last_comment[i]]
                 /\ cron_launches' =
                        [i \in Issues |->
                            IF i \in triggered
                            THEN [cron_launches[i] EXCEPT
                                     ![comments(i).id] = @ + 1]
                            ELSE cron_launches[i]]
                 /\ processed_issues' = processed_issues \cup succeeded
                 /\ shutdown_requested' = (triggered # new_qualifying_issues)
    /\ UNCHANGED <<latest_comment, webhook_launches>>
    /\ UNCHANGED otherThanTrigger

\* signal_handler
signal_handler ==
    /\ ~shutdown_requested
    /\ shutdown_requested' = TRUE
    /\ UNCHANGED <<latest_comment, processed_issues, issue_last_comment,
                   cron_launches, webhook_launches>>
    /\ UNCHANGED otherThanTrigger

\* what extract_adw_info answers: (None, None), or a workflow of
\* AVAILABLE_WORKFLOWS with or without an adw_id
ExtractResults ==
    {[workflow |-> NoWorkflow, adw_id |-> FALSE]}
    \cup [workflow : AVAILABLE_WORKFLOWS, adw_id : BOOLEAN]

\* lines 84-120 of github_webhook: the workflow a delivery asks for
DetectedWorkflow(event_type, content_to_check, extracted) ==
    LET detected ==
            IF event_type = "issue_comment" /\ HasBotIdentifier(content_to_check)
            THEN NoWorkflow
            ELSE IF HasAdwMarker(content_to_check) THEN extracted.workflow
            ELSE NoWorkflow
    IN IF detected = "adw_build" /\ ~extracted.adw_id THEN NoWorkflow ELSE detected

\* One delivery to /gh-webhook that launches: an "issues"/"opened" event
\* with some issue body, or an "issue_comment"/"created" event for the
\* newest comment of the issue.  posted is whether make_issue_comment
\* succeeded.  (A delivery that asks for no workflow changes nothing.)
github_webhook ==
    \E issue_number \in Issues :
    \E event_type \in {"issues", "issue_comment"} :
    \E posted \in BOOLEAN :
      LET comment == latest_comment[issue_number]
          sub_event == IF event_type = "issues" THEN 0 ELSE comment.id
      IN /\ event_type = "issue_comment" => comment # NoComment
         /\ {DetectedWorkflow(event_type, content_to_check, extracted) :
                 content_to_check \in (IF event_type = "issues" THEN IssueBodies
                                       ELSE {comment.body}),
                 extracted \in ExtractResults} # {NoWorkflow}
         /\ TotalLaunches < MaxLaunches
         /\ posted => comment.id < MaxComments
         /\ latest_comment' =
                IF posted
                THEN [latest_comment EXCEPT ![issue_number] =
                         [id |-> comment.id + 1, body |-> "[ADW-BOT]"]]
                ELSE latest_comment
         /\ webhook_launches' =
                [webhook_launches EXCEPT ![issue_number][sub_event] = @ + 1]
         /\ UNCHANGED <<processed_issues, issue_last_comment,
                        shutdown_requested, cron_launches>>
         /\ UNCHANGED otherThanTrigger

\* the issue tracker: somebody (a user, or a running workflow) comments
AddComment ==
    /\ \E i \in Issues : \E body \in CommentBodies :
         /\ latest_comment[i].id < MaxComments
         /\ latest_comment' =
                [latest_comment EXCEPT ![i] =
                    [id |-> latest_comment[i].id + 1, body |-> body]]
    /\ UNCHANGED <<processed_issues, issue_last_comment, shutdown_requested,
                   cron_launches, webhook_launches>>
    /\ UNCHANGED otherThanTrigger

InitTrigger ==
    /\ TestIdle
    /\ SchedIdle
    /\ TriggerIdle
    /\ StoreIdle
    /\ RunIdle
    /\ ConcIdle
    /\ AgentIdle
    /\ ClassifyIdle
    /\ OrchIdle

NextTrigger ==
    \/ check_and_process_issues
    \/ signal_handler
    \/ github_webhook
    \/ AddComment

SpecTrigger == InitTrigger /\ [][NextTrigger]_vars

---------------------------------------------------------------------------
(* Properties of the triggers *)

---------------------------------------------------------------------------
(* state.py: ADWState *)

\* core_fields of ADWState.update, the fields of ADWStateData
core_fields == {"adw_id", "issue_number", "branch_name", "plan_file", "issue_class"}

\* keyword names a caller may pass: the core fields and one that is not
KwargNames == core_fields \cup {"commit_sha"}

\* the values a keyword argument may carry
KwargValues(k) ==
    CASE k = "adw_id" -> RunIds \cup {None}
      [] k = "issue_number" -> {"42", None}
      [] k = "branch_name" -> {"feat-42-adw1", None}
      [] k = "plan_file" -> {"specs/plan-42.md", None}
      [] k = "issue_class" -> {"/feature", None}
      [] OTHER -> {"abc123"}

AllKwargValues == UNION {KwargValues(k) : k \in KwargNames}

\* the **kwargs of one update call
Kwargs ==
    UNION {{kw \in [K -> AllKwargValues] : \A k \in K : kw[k] \in KwargValues(k)} :
              K \in {K \in SUBSET KwargNames : Cardinality(K) <= MaxKwargs}}

\* ADWState.__init__ with a non-empty adw_id
ADWState(adw_id) == [adw_id |-> adw_id, data |-> [k \in {"adw_id"} |-> adw_id]]

\* mutant: every keyword is stored
update_unfiltered(data, kw) ==
    [k \in DOMAIN data \cup DOMAIN kw |-> IF k \in DOMAIN kw THEN kw[k] ELSE data[k]]

\* ADWState.update: self.data after the loop over kwargs
update(data, kw) ==
    [k \in DOMAIN data \cup (DOMAIN kw \cap core_fields) |->
        IF k \in DOMAIN kw THEN kw[k] ELSE data[k]]

\* self.data.get(key)
get(data, key) == IF key \in DOMAIN data THEN data[key] ELSE None

\* ADWStateData(...) accepts the values: adw_id is a str, the others are
\* Optional (every value of KwargValues has the type of its field)
Validates(data) == get(data, "adw_id") \in RunIds

\* mutant: fields holding None are left out of the dump
model_dump_exclude_none(data) ==
    [k \in {f \in core_fields : get(data, f) # None} |-> data[k]]

\* ADWStateData(...).model_dump(): the five fields, None for an absent one
model_dump(data) == [k \in core_fields |-> get(data, k)]

\* ADWState.load on the state file: None when there is no file, else an
\* instance made from the validated content (a file is only ever written by
\* save, so it parses and validates)
load(file) ==
    IF file = NoFile THEN NoState
    ELSE [adw_id |-> file.adw_id, data |-> model_dump(file)]

\* the state file after st.save()
save(st, file) ==
    IF Validates(st.data) /\ st.adw_id = TrackedRun THEN model_dump(st.data) ELSE file

\* state = ADWState(adw_id)
Construct ==
    /\ \E adw_id \in RunIds : state' = ADWState(adw_id)
    /\ store_op' = "init"
    /\ UNCHANGED <<state_file, kwargs, prev_data>>
    /\ UNCHANGED otherThanStore

\* state.update(**kw)
Update ==
    /\ state # NoState
    /\ \E kw \in Kwargs :
         /\ state' = [state EXCEPT !.data = update(@, kw)]
         /\ store_op' = "update"
    /\ UNCHANGED <<state_file, kwargs, prev_data>>
    /\ UNCHANGED otherThanStore

\* state.save(): validation, then the whole dump is written to the file of
\* self.adw_id (a file of another run is not watched)
Save ==
    /\ state # NoState
    /\ state_file' = save(state, state_file)
    /\ store_op' = IF ~Validates(state.data) THEN "save_raised"
                   ELSE IF store_op \in {"save", "save_again"} THEN "save_again"
                   ELSE "save"
    /\ UNCHANGED <<state, kwargs, prev_data>>
    /\ UNCHANGED otherThanStore

\* state = ADWState.load(TrackedRun)
Load ==
    /\ state' = load(state_file)
    /\ store_op' = IF state_file = NoFile THEN "load_none" ELSE "load"
    /\ UNCHANGED <<state_file, kwargs, prev_data>>
    /\ UNCHANGED otherThanStore

InitStore ==
    /\ TestIdle
    /\ SchedIdle
    /\ TriggerIdle
    /\ StoreIdle
    /\ RunIdle
    /\ ConcIdle
    /\ AgentIdle
    /\ ClassifyIdle
    /\ OrchIdle

NextStore ==
    \/ Construct
    \/ Update
    \/ Save
    \/ Load

\* any sequence of ADWState calls of one script
SpecStore == InitStore /\ [][NextStore]_vars

\* the values self.data can hold: adw_id is always a key, the other core
\* fields may be absent
StateDatas ==
    UNION {{d \in [K -> AllKwargValues] : \A k \in K : d[k] \in KwargValues(k)} :
              K \in {K \in SUBSET core_fields : "adw_id" \in K}}

\* one update call on an arbitrary ADWState: the call is about to be made
InitUpdate ==
    /\ TestIdle
    /\ SchedIdle
    /\ TriggerIdle
    /\ RunIdle
    /\ ConcIdle
    /\ AgentIdle
    /\ ClassifyIdle
    /\ OrchIdle
    /\ state_file = NoFile
    /\ store_op = "call"
    /\ \E d \in StateDatas : state = [adw_id |-> TrackedRun, data |-> d]
    /\ kwargs \in Kwargs
    /\ prev_data = state.data

\* state.update(**kwargs) returns
UpdateCall ==
    /\ store_op = "call"
    /\ state' = [state EXCEPT !.data = update(@, kwargs)]
    /\ store_op' = "update"
    /\ UNCHANGED <<state_file, kwargs, prev_data>>
    /\ UNCHANGED otherThanStore

NextUpdate == UpdateCall

\* ADWState.update as a function of (self.data, kwargs)
SpecUpdate == InitUpdate /\ [][NextUpdate]_vars

\* the last call was a save that wrote the file
Saved == store_op \in {"save", "save_again"}

\* C12: after any sequence of update, save and load calls the stored adw_id
\* equals the identifier the ADWState was created with: in the instance's
\* data, and in the file the instance has just written
C12_AdwIdImmutable ==
    state # NoState =>
        /\ get(state.data, "adw_id") = state.adw_id
        /\ (Saved /\ state.adw_id = TrackedRun) => state_file.adw_id = TrackedRun

C16_UpdateOnlyNamedCoreFields ==
    store_op = "update" =>
        /\ DOMAIN state.data \subseteq core_fields
        /\ \A k \in KwargNames :
             IF k \in core_fields \cap DOMAIN kwargs
             THEN k \in DOMAIN state.data /\ state.data[k] = kwargs[k]
             ELSE /\ k \in DOMAIN state.data <=> k \in DOMAIN prev_data
                  /\ k \in DOMAIN prev_data => state.data[k] = prev_data[k]

\* an update naming one core field and one unrecognized key, on a state
\* that holds another field
C16_Witness ==
    /\ store_op = "update"
    /\ DOMAIN kwargs = {"branch_name", "commit_sha"}
    /\ "plan_file" \in DOMAIN prev_data
    /\ prev_data["plan_file"] # None
    /\ state.data["plan_file"] = prev_data["plan_file"]
    /\ state.data["branch_name"] = kwargs["branch_name"]
    /\ "commit_sha" \notin DOMAIN state.data

---------------------------------------------------------------------------
(* adw_plan_build.py, adw_plan_build_test.py, adw_build.py, adw_test.py *)

\* sys.argv[1] of every script of the run
issue_number == "42"

\* the keyword arguments ensure_adw_id passes to update
EnsureKwargs(adw_id) == [adw_id |-> adw_id, issue_number |-> issue_number]

\* mutant: the state is created again although a record exists
ensure_adw_id_recreate(file, adw_id) ==
    save([ADWState(TrackedRun) EXCEPT !.data = update(@, EnsureKwargs(TrackedRun))], file)

\* ensure_adw_id: the state file afterwards.  A record that loads is left
\* alone; otherwise (no record, or no id given and make_adw_id names the run)
\* a state holding adw_id and issue_number is saved
ensure_adw_id(file, adw_id) ==
    IF adw_id # None /\ load(file) # NoState
    THEN file
    ELSE save([ADWState(TrackedRun) EXCEPT !.data = update(@, EnsureKwargs(TrackedRun))], file)

\* what the tools of a phase can do: "uv" is uv run failing before the
\* script starts, the others name the step of the script that fails
\* ("setup" is check_env_vars or get_repo_url, "git" the checkout or the
\* creation of the branch, "agent" the implementation, "create_commit" the
\* /commit agent, "commit" git add or git commit, "push" git push,
\* "pr_list" gh pr list and "pr_create" gh pr create)
Tools(p) ==
    CASE p = "plan" -> {"uv", "classify", "branch", "plan", "ok"}
      [] p = "build" -> {"uv", "setup", "git", "agent", "create_commit", "commit",
                         "push", "pr_list", "pr_create", "ok"}
      [] p = "test" -> {"uv", "setup", "git", "create_commit", "push", "pr_list",
                        "pr_create", "ok"}

\* failed_count and e2e_failed_count as the retry loops of adw_test.py
\* return them; the end-to-end tests only run when no unit test fails
TestCounts ==
    {[failed_count |-> 0, e2e_failed_count |-> 0],
     [failed_count |-> 1, e2e_failed_count |-> 0],
     [failed_count |-> 0, e2e_failed_count |-> 1]}

\* What a phase meets: the step that fails, whether classify_issue gives a
\* command, whether git status shows changes when commit_changes runs,
\* whether a pull request exists for the branch, and the test counts
Envs(p) ==
    [tools : Tools(p),
     classify_ok : BOOLEAN,
     dirty : IF p = "build" THEN BOOLEAN ELSE {FALSE},
     pr_exists : IF p = "plan" THEN {FALSE} ELSE BOOLEAN,
     counts : IF p = "test" THEN TestCounts ELSE {NoCounts}]

\* st.update(**kw); st.save(): the instance and the file afterwards
UpdateSave(st, kw, file) ==
    LET st1 == [st EXCEPT !.data = update(@, kw)]
    IN  [state |-> st1, file |-> save(st1, file)]

\* make_issue_comment with a message that reports progress
Comment(text) == <<"comment", text>>

\* make_issue_comment with a message that reports a failure
ErrorComment(text) == <<"error comment", text>>

\* step 3 of create_or_find_branch, for a state that names no branch and an
\* issue without a branch: classify, name the branch, create it
create_or_find_branch(st, e) ==
    IF e.tools = "classify"
    THEN [branch_name |-> "", error |-> "Failed to classify issue", state |-> st,
          events |-> <<<<"agent", "/classify_issue">>>>]
    ELSE LET st1 == [st EXCEPT !.data = update(@, [issue_class |-> "/feature"])]
         IN  IF e.tools = "branch"
             THEN [branch_name |-> "", error |-> "Failed to create branch", state |-> st1,
                   events |-> <<<<"agent", "/classify_issue">>,
                                <<"agent", "/generate_branch_name">>,
                                <<"git", "checkout -b failed">>>>]
             ELSE [branch_name |-> "feat-42-adw1", error |-> None,
                   state |-> [st1 EXCEPT !.data = update(@, [branch_name |-> "feat-42-adw1"])],
                   events |-> <<<<"agent", "/classify_issue">>,
                                <<"agent", "/generate_branch_name">>,
                                <<"git", "checkout -b">>>>]

\* adw_plan.py: the record is made if absent, then the change kind, the
\* branch name and the plan file are recorded as each is produced
adw_plan_outcome(file, e) ==
    LET file0 == ensure_adw_id(file, TrackedRun)
        s1 == UpdateSave(load(file0), [issue_class |-> "/feature"], file0)
        s2 == UpdateSave(s1.state, [branch_name |-> "feat-42-adw1"], s1.file)
        s3 == UpdateSave(s2.state, [plan_file |-> "specs/plan-42.md"], s2.file)
    IN  CASE e.tools = "uv" -> [rc |-> 2, file |-> file]
          [] e.tools = "classify" -> [rc |-> 1, file |-> file0]
          [] e.tools = "branch" -> [rc |-> 1, file |-> s1.file]
          [] e.tools = "plan" -> [rc |-> 1, file |-> s2.file]
          [] OTHER -> [rc |-> 0, file |-> s3.file]

\* adw_plan.py: what the phase does besides writing the record
adw_plan_events(file, e) ==
    LET branch == create_or_find_branch(load(ensure_adw_id(file, TrackedRun)), e)
    IN  CASE e.tools = "uv" -> <<>>
          [] branch.error # None ->
                branch.events \o <<ErrorComment(branch.error)>>
          [] e.tools = "plan" ->
                branch.events \o <<<<"agent", "/plan">>,
                                   ErrorComment("Error building plan")>>
          [] OTHER ->
                branch.events \o <<<<"agent", "/plan">>, <<"save", "adw_plan">>>>

\* mutant: the plan file is not asked for
MissingPrerequisite_branch_only(st) ==
    IF st = NoState THEN "state"
    ELSE IF get(st.data, "branch_name") = None THEN "branch_name"
    ELSE None

\* what adw_build.py finds missing before it starts: the record, its
\* branch_name or its plan_file (lines 82-131)
MissingPrerequisite(st) ==
    IF st = NoState THEN "state"
    ELSE IF get(st.data, "branch_name") = None THEN "branch_name"
    ELSE IF get(st.data, "plan_file") = None THEN "plan_file"
    ELSE None

\* mutant: the defaults of the two phases are exchanged
DefaultIssueClass_swapped(p) == IF p = "build" THEN "/chore" ELSE "/feature"

\* the change kind a phase takes when classify_issue returns an error
DefaultIssueClass(p) == IF p = "build" THEN "/feature" ELSE "/chore"

\* mutant: git add and git commit run whatever git status says
commit_changes_always(e) ==
    IF e.tools = "commit"
    THEN [success |-> FALSE, events |-> <<<<"git", "commit failed">>>>]
    ELSE [success |-> TRUE, events |-> <<<<"git", "commit">>>>]

\* commit_changes: nothing to do on a clean tree, else git add and git commit
commit_changes(e) ==
    IF ~e.dirty
    THEN [success |-> TRUE, events |-> <<>>]
    ELSE IF e.tools = "commit"
    THEN [success |-> FALSE, events |-> <<<<"git", "commit failed">>>>]
    ELSE [success |-> TRUE, events |-> <<<<"git", "commit">>>>]

\* finalize_git_operations for a state that names its branch: push, then
\* link the pull request found or create one.  gh pr create fails when the
\* branch has a pull request that gh pr list did not report.
finalize_git_operations(e) ==
    IF e.tools = "push"
    THEN <<<<"git", "push failed">>>>
    ELSE LET pr_url == e.pr_exists /\ e.tools # "pr_list"
         IN  <<<<"git", "push">>>> \o
             (IF pr_url
              THEN <<Comment("Pull request")>>
              ELSE IF e.pr_exists \/ e.tools = "pr_create"
              THEN <<<<"gh", "pr create failed">>>>
              ELSE <<<<"gh", "pr create">>, Comment("Pull request created")>>)

\* adw_build.py main: exit code, the state file afterwards, and what the
\* script did on the way
adw_build_run(file, e) ==
    LET st == load(file)
        missing == MissingPrerequisite(st)
        classify == get(st.data, "issue_class") = None
        classified == IF classify /\ e.classify_ok
                      THEN UpdateSave(st, [issue_class |-> "/feature"], file)
                      ELSE [state |-> st, file |-> file]
        issue_command == IF ~classify THEN get(st.data, "issue_class")
                         ELSE IF e.classify_ok THEN "/feature"
                         ELSE DefaultIssueClass("build")
        committed == commit_changes(e)
        found == <<Comment("Found existing state")>>
        implementing == found \o <<<<"git", "checkout">>,
                                   Comment("Starting implementation phase"),
                                   Comment("Implementing solution"),
                                   <<"agent", "/implement">>>>
        implemented == implementing \o <<Comment("Solution implemented")>> \o
                       (IF classify THEN <<<<"agent", "/classify_issue">>>> ELSE <<>>) \o
                       <<<<"/commit", issue_command>>>>
    IN  CASE e.tools = "uv" -> [rc |-> 2, file |-> file, events |-> <<>>]
          [] missing = "state" ->
                [rc |-> 1, file |-> file,
                 events |-> <<<<"log", "No state found">>>>]
          [] e.tools = "setup" -> [rc |-> 1, file |-> file, events |-> found]
          [] missing = "branch_name" ->
                [rc |-> 1, file |-> file,
                 events |-> found \o <<ErrorComment("No branch name in state")>>]
          [] missing = "plan_file" ->
                [rc |-> 1, file |-> file,
                 events |-> found \o <<ErrorComment("No plan file in state")>>]
          [] e.tools = "git" ->
                [rc |-> 1, file |-> file,
                 events |-> found \o <<<<"git", "checkout failed">>,
                                       ErrorComment("Failed to checkout branch")>>]
          [] e.tools = "agent" ->
                [rc |-> 1, file |-> file,
                 events |-> implementing \o
                            <<ErrorComment("Error implementing solution")>>]
          [] e.tools = "create_commit" ->
                [rc |-> 1, file |-> classified.file,
                 events |-> implemented \o
                            <<ErrorComment("Error creating commit message")>>]
          [] ~committed.success ->
                [rc |-> 1, file |-> classified.file,
                 events |-> implemented \o committed.events \o
                            <<ErrorComment("Error committing implementation")>>]
          [] OTHER ->
                [rc |-> 0, file |-> save(classified.state, classified.file),
                 events |-> implemented \o committed.events \o
                            <<Comment("Implementation committed")>> \o
                            finalize_git_operations(e) \o
                            <<Comment("Implementation phase completed"),
                              <<"save", "adw_build">>>>]

\* adw_build.py main: exit code and the state file afterwards
adw_build_outcome(file, e) ==
    [rc |-> adw_build_run(file, e).rc, file |-> adw_build_run(file, e).file]

\* mutant: only the unit test failures count
TestExit_unit_only(counts) == IF counts.failed_count > 0 THEN 1 ELSE 0

\* total_failures = failed_count + e2e_failed_count; sys.exit(1) if it is
\* positive, the end of main otherwise
TestExit(counts) ==
    IF counts.failed_count + counts.e2e_failed_count > 0 THEN 1 ELSE 0

\* adw_test.py main: exit code, the state file afterwards, and what the
\* script did on the way (the retry loops are taken by their results)
adw_test_run(file, e) ==
    LET file0 == ensure_adw_id(file, TrackedRun)
        st == load(file0)
        has_branch == get(st.data, "branch_name") # None
        branched == IF ~has_branch
                    THEN UpdateSave(st, [branch_name |-> "test-issue-42-adw-adw1"], file0)
                    ELSE [state |-> st, file |-> file0]
        classify == get(branched.state.data, "issue_class") = None
        issue_class == IF ~classify THEN get(branched.state.data, "issue_class")
                       ELSE IF e.classify_ok THEN "/feature"
                       ELSE DefaultIssueClass("test")
        classified == IF classify
                      THEN UpdateSave(branched.state, [issue_class |-> issue_class],
                                      branched.file)
                      ELSE branched
        final == save(classified.state, classified.file)
        checkout == IF has_branch
                    THEN <<<<"git", "checkout">>>>
                    ELSE <<<<"git", "checkout -b">>, <<"save", "adw_test">>,
                           Comment("Created test branch")>>
        tested == checkout \o
                  <<Comment("Starting test suite"),
                    Comment("Running application tests"),
                    <<"agent", "/test">>,
                    Comment("Final test results")>> \o
                  (IF e.counts.failed_count > 0
                   THEN <<Comment("Skipping E2E tests due to unit test failures")>>
                   ELSE <<Comment("Starting E2E tests"), <<"agent", "/test_e2e">>,
                          Comment("Final E2E test results")>>)
        committed == tested \o <<Comment("Committing test results")>> \o
                     (IF classify
                      THEN <<<<"agent", "/classify_issue">>, <<"save", "adw_test">>>>
                      ELSE <<>>) \o
                     <<<<"/commit", issue_class>>>> \o
                     (IF e.tools = "create_commit"
                      THEN <<ErrorComment("Error committing test results")>>
                      ELSE <<>>)
        finished == committed \o <<Comment("Test Results Summary")>> \o
                    finalize_git_operations(e) \o <<<<"save", "adw_test">>>>
    IN  CASE e.tools = "uv" -> [rc |-> 2, file |-> file, events |-> <<>>]
          [] e.tools = "setup" -> [rc |-> 1, file |-> file0, events |-> <<>>]
          [] e.tools = "git" ->
                [rc |-> 1, file |-> file0,
                 events |-> IF has_branch
                            THEN <<<<"git", "checkout failed">>,
                                   ErrorComment("Failed to checkout branch")>>
                            ELSE <<<<"git", "checkout -b failed">>,
                                   ErrorComment("Error creating branch")>>]
          [] OTHER ->
                [rc |-> TestExit(e.counts), file |-> final,
                 events |-> finished \o
                            <<IF TestExit(e.counts) # 0
                              THEN ErrorComment("Test suite completed with failures")
                              ELSE Comment("All tests passed successfully")>>]

\* adw_test.py main: exit code and the state file afterwards
adw_test_outcome(file, e) ==
    [rc |-> adw_test_run(file, e).rc, file |-> adw_test_run(file, e).file]

\* what phase p does to the state file and how it exits
Outcome(p, file, e) ==
    CASE p = "plan" -> adw_plan_outcome(file, e)
      [] p = "build" -> adw_build_outcome(file, e)
      [] p = "test" -> adw_test_outcome(file, e)

\* what phase p does besides writing the state file
Events(p, file, e) ==
    CASE p = "plan" -> adw_plan_events(file, e)
      [] p = "build" -> adw_build_run(file, e).events
      [] p = "test" -> adw_test_run(file, e).events

\* the phases a controller script chains
PipelinePhases(pl) ==
    IF pl = "plan_build" THEN {"plan", "build"} ELSE PhaseNames

\* mutant: the return code is not looked at
PhaseFailed_never(rc) == FALSE

\* if plan.returncode != 0
PhaseFailed(rc) == rc # 0

\* mutant: the controller always exits 0
ControllerExit_zero(failed) == 0

\* sys.exit(1) after a failing phase, falling off the end of main otherwise
ControllerExit(failed) == IF failed THEN 1 ELSE 0

\* subprocess.run(<phase>_cmd) is entered
StartPhase(p) ==
    /\ run_pc' = p
    /\ running' = running \cup {p}
    /\ started' = started \cup {p}
    /\ pipeline_rc' = pipeline_rc

\* the controller exits
ExitController(failed) ==
    /\ run_pc' = "exited"
    /\ pipeline_rc' = ControllerExit(failed)
    /\ UNCHANGED <<running, started>>

\* a phase process runs from start to exit
RunPhase(p) ==
    /\ \E e \in Envs(p) :
         LET o == Outcome(p, state_file, e)
         IN  /\ state_file' = o.file
             /\ saved_record' = o.file
             /\ phase_rc' = [phase_rc EXCEPT ![p] = o.rc]
             /\ env' = e
             /\ events' = Events(p, state_file, e)
    /\ running' = running \ {p}
    /\ UNCHANGED <<run_pc, pipeline, started, pipeline_rc, resumed>>
    /\ UNCHANGED otherThanRun

\* main of a controller up to the first subprocess.run: ensure_adw_id, then
\* the Plan phase is started
main ==
    /\ run_pc = "idle"
    /\ \E pl \in {"plan_build", "plan_build_test"} : pipeline' = pl
    /\ \E adw_id \in IF state_file = NoFile THEN {None, TrackedRun} ELSE {TrackedRun} :
         state_file' = ensure_adw_id(state_file, adw_id)
    /\ saved_record' = state_file'
    /\ StartPhase("plan")
    /\ UNCHANGED <<phase_rc, env, resumed, events>>
    /\ UNCHANGED otherThanRun

\* the Plan phase process exits
adw_plan ==
    /\ "plan" \in running
    /\ RunPhase("plan")

\* the Build phase process exits
adw_build ==
    /\ "build" \in running
    /\ RunPhase("build")

\* the Test phase process exits
adw_test ==
    /\ "test" \in running
    /\ RunPhase("test")

\* subprocess.run(plan_cmd) returns
plan_returned ==
    /\ run_pc = "plan"
    /\ "plan" \notin running
    /\ IF PhaseFailed(phase_rc["plan"])
       THEN ExitController(TRUE)
       ELSE StartPhase("build")
    /\ UNCHANGED <<pipeline, phase_rc, saved_record, env, resumed, events,
                   state_file>>
    /\ UNCHANGED otherThanRun

\* subprocess.run(build_cmd) returns
build_returned ==
    /\ run_pc = "build"
    /\ "build" \notin running
    /\ IF PhaseFailed(phase_rc["build"])
       THEN ExitController(TRUE)
       ELSE IF pipeline = "plan_build"
            THEN ExitController(FALSE)
            ELSE StartPhase("test")
    /\ UNCHANGED <<pipeline, phase_rc, saved_record, env, resumed, events,
                   state_file>>
    /\ UNCHANGED otherThanRun

\* subprocess.run(test_cmd) returns
test_returned ==
    /\ run_pc = "test"
    /\ "test" \notin running
    /\ ExitController(PhaseFailed(phase_rc["test"]))
    /\ UNCHANGED <<pipeline, phase_rc, saved_record, env, resumed, events,
                   state_file>>
    /\ UNCHANGED otherThanRun

\* the phase that comes after the phases that have exited 0, "none" if a
\* phase failed or all are done
NextPhase ==
    LET undone == {i \in 1..Len(Phases) : phase_rc[Phases[i]] = -1}
        first == CHOOSE i \in undone : \A j \in undone : i <= j
    IN  IF undone # {} /\ \A j \in 1..first - 1 : phase_rc[Phases[j]] = 0
        THEN Phases[first] ELSE "none"

\* the controller is killed between two phases
Interrupt ==
    /\ run_pc \in {"plan", "build"}
    /\ run_pc \notin running
    /\ phase_rc[run_pc] = 0
    /\ run_pc' = "stopped"
    /\ UNCHANGED <<pipeline, running, started, phase_rc, pipeline_rc,
                   saved_record, env, resumed, events,
                   state_file>>
    /\ UNCHANGED otherThanRun

\* no controller runs and no phase is alive
Stopped == run_pc \in {"stopped", "exited", "resumed"} /\ running = {}

\* uv run adw_<phase>.py <issue-number> <adw-id>, typed after the pipeline
\* has stopped
InvokePhase ==
    /\ Stopped
    /\ NextPhase \in {"build", "test"}
    /\ running' = {NextPhase}
    /\ resumed' = TRUE
    /\ run_pc' = "resumed"
    /\ UNCHANGED <<pipeline, started, phase_rc, pipeline_rc, saved_record, env,
                   events, state_file>>
    /\ UNCHANGED otherThanRun

\* the record an earlier ensure_adw_id of the run left
EnsuredRecord == ensure_adw_id(NoFile, TrackedRun)

InitRun ==
    /\ TestIdle
    /\ SchedIdle
    /\ TriggerIdle
    /\ RunIdle
    /\ ConcIdle
    /\ AgentIdle
    /\ ClassifyIdle
    /\ OrchIdle
    /\ state = NoState
    /\ store_op = "idle"
    /\ kwargs = NoKwargs
    /\ prev_data = NoState.data
    /\ state_file \in {NoFile, EnsuredRecord}

NextRun ==
    \/ main
    \/ adw_plan
    \/ plan_returned
    \/ adw_build
    \/ build_returned
    \/ adw_test
    \/ test_returned
    \/ Interrupt
    \/ InvokePhase

\* one run: a controller script, and phases invoked by themselves after it
SpecRun == InitRun /\ [][NextRun]_vars

\* trigger_webhook.py, a comment naming a workflow and the adw_id of the
\* run: a new ADWState of that id is saved, then the workflow script is
\* launched with the issue number and the adw_id
github_webhook_adw_id ==
    /\ Stopped
    /\ NextPhase \in {"build", "test"}
    /\ state_file' = UpdateSave(ADWState(TrackedRun), EnsureKwargs(TrackedRun), state_file).file
    /\ running' = {NextPhase}
    /\ resumed' = TRUE
    /\ run_pc' = "resumed"
    /\ UNCHANGED <<pipeline, started, phase_rc, pipeline_rc, saved_record, env,
                   events>>
    /\ UNCHANGED otherThanRun

NextEngine ==
    \/ NextRun
    \/ github_webhook_adw_id

\* one run driven by the controller, by hand and by webhook comments
SpecEngine == InitRun /\ [][NextEngine]_vars

\* the fields of the record other than adw_id
ProgressFields == core_fields \ {"adw_id"}

\* C11: once issue_number, branch_name, plan_file or issue_class is set in
\* the persisted record, no step of a phase, of ensure_adw_id or of a
\* trigger handler given the run's id writes the record with that field unset
C11_FieldsNeverUnset ==
    [][\A f \in ProgressFields :
         (state_file # NoFile /\ state_file[f] # None) =>
             (state_file' # NoFile /\ state_file'[f] # None)]_vars

C17_FailFastNoOverlap ==
    /\ "build" \in started => phase_rc["plan"] = 0
    /\ "test" \in started => phase_rc["build"] = 0
    /\ Cardinality(running) <= 1

\* Build exited non-zero and the controller exited without starting Test
C17_Witness ==
    /\ pipeline = "plan_build_test"
    /\ run_pc = "exited"
    /\ phase_rc["plan"] = 0
    /\ phase_rc["build"] \notin {0, -1}
    /\ started = {"plan", "build"}

\* the phases of the pipeline that exited non-zero
FailedPhases == {i \in 1..Len(Phases) : Phases[i] \in started /\ phase_rc[Phases[i]] \notin {0, -1}}

\* C18 as stated: the controller exits 0 exactly when every phase exited 0;
\* otherwise its exit code is the exit code of the first failing phase
C18_ExitCodeOfFirstFailingPhase ==
    pipeline_rc # -1 =>
        /\ pipeline_rc = 0 <=> \A p \in PipelinePhases(pipeline) : phase_rc[p] = 0
        /\ pipeline_rc # 0 =>
             /\ FailedPhases # {}
             /\ pipeline_rc = phase_rc[Phases[CHOOSE i \in FailedPhases :
                                                 \A j \in FailedPhases : i <= j]]

\* C18: the controller exits 0 exactly when every phase exited 0; otherwise
\* a phase exited non-zero, no later phase was started, and the controller
\* exits 1 whatever that phase's exit code
C18_ExitOneOnFirstFailure ==
    pipeline_rc # -1 =>
        /\ pipeline_rc = 0 <=> \A p \in PipelinePhases(pipeline) : phase_rc[p] = 0
        /\ pipeline_rc # 0 =>
             /\ Cardinality(FailedPhases) = 1
             /\ \A i \in FailedPhases : \A j \in i + 1..Len(Phases) : Phases[j] \notin started
             /\ pipeline_rc = 1

\* a phase exited 2 and the controller exited 1
C18_Witness ==
    /\ run_pc = "exited"
    /\ phase_rc["build"] = 2
    /\ pipeline_rc = 1

---------------------------------------------------------------------------
(* state.py: ADWState.save and ADWState.load running at the same time *)

\* the file just after open(state_path, "w"): it exists and is empty
EmptyFile == [exists |-> TRUE, text |-> ""]

\* the file when a part of the JSON text has reached it
PartialFile == [exists |-> TRUE, text |-> "{"]

\* records a phase can have saved: adw_id and issue_number set, each other
\* field set or None
SavedRecords ==
    {[adw_id |-> TrackedRun, issue_number |-> issue_number,
      branch_name |-> b, plan_file |-> f, issue_class |-> k] :
        b \in KwargValues("branch_name"), f \in KwargValues("plan_file"),
        k \in KwargValues("issue_class")}

\* json.load and ADWStateData(**data) in load: a whole record gives an
\* instance; an empty or cut-off text raises, and load returns None
load_text(file) ==
    IF file \in {EmptyFile, PartialFile} THEN NoState ELSE load(file)

\* save: open(state_path, "w") truncates the file
save_open ==
    /\ writer_pc = "idle"
    /\ state_file' = EmptyFile
    /\ writer_pc' = "opened"
    /\ UNCHANGED <<reader_pc, load_result, old_record, new_record>>
    /\ UNCHANGED otherThanConc

\* save: json.dump fills the buffer; a part of the text is flushed to the
\* file when it does not fit the buffer
save_flush ==
    /\ writer_pc = "opened"
    /\ state_file' = PartialFile
    /\ writer_pc' = "flushed"
    /\ UNCHANGED <<reader_pc, load_result, old_record, new_record>>
    /\ UNCHANGED otherThanConc

\* save: leaving the with block writes the rest and closes the file
save_close ==
    /\ writer_pc \in {"opened", "flushed"}
    /\ state_file' = new_record
    /\ writer_pc' = "closed"
    /\ UNCHANGED <<reader_pc, load_result, old_record, new_record>>
    /\ UNCHANGED otherThanConc

\* load: os.path.exists(state_path)
load_exists ==
    /\ reader_pc = "idle"
    /\ IF state_file = NoFile
       THEN /\ load_result' = [returned |-> TRUE, state |-> NoState]
            /\ reader_pc' = "returned"
       ELSE /\ load_result' = load_result
            /\ reader_pc' = "exists"
    /\ UNCHANGED <<writer_pc, old_record, new_record, state_file>>
    /\ UNCHANGED otherThanConc

\* load: the file is opened and read, the text parsed and validated
load_read ==
    /\ reader_pc = "exists"
    /\ load_result' = [returned |-> TRUE, state |-> load_text(state_file)]
    /\ reader_pc' = "returned"
    /\ UNCHANGED <<writer_pc, old_record, new_record, state_file>>
    /\ UNCHANGED otherThanConc

\* a record is in the file, and a process saves a record of the same run
InitConcurrent ==
    /\ TestIdle
    /\ SchedIdle
    /\ TriggerIdle
    /\ RunIdle
    /\ state = NoState
    /\ store_op = "idle"
    /\ kwargs = NoKwargs
    /\ prev_data = NoState.data
    /\ writer_pc = "idle"
    /\ reader_pc = "idle"
    /\ load_result = NoResult
    /\ old_record \in SavedRecords
    /\ new_record \in SavedRecords
    /\ state_file = old_record
    /\ AgentIdle
    /\ ClassifyIdle
    /\ OrchIdle

NextConcurrent ==
    \/ save_open
    \/ save_flush
    \/ save_close
    \/ load_exists
    \/ load_read

\* one save and one load of the same state file, in any interleaving
SpecConcurrent == InitConcurrent /\ [][NextConcurrent]_vars

\* C15: a load running at the same time as a save of the same record never
\* sees a partly written record: it returns the record before the save or
\* the record after it, and never reports the existing record absent
C15_LoadSeesWholeRecord ==
    load_result.returned =>
        load_result.state \in {load(old_record), load(new_record)}

---------------------------------------------------------------------------
(* agent.py: prompt_claude_code; git_ops.py: push_branch; github.py:
   make_issue_comment *)

\* the lines of the output file that are messages of type "result": an
\* ordinary result, one with is_error, one of subtype error_during_execution
ResultKinds == {"result", "result_is_error", "error_during_execution"}

\* the lines of an output file: JSON messages, or text that is not JSON
MessageKinds == ResultKinds \cup {"assistant", "garbage"}

Transcripts == UNION {[1..n -> MessageKinds] : n \in 0..MaxMessages}

\* the exit codes of an external process
ReturnCodes == {0, 1}

\* parse_jsonl_output: the last message of type "result", "none" if there
\* is none or a line does not parse
parse_jsonl_output(t) ==
    LET result_lines == {i \in 1..Len(t) : t[i] \in ResultKinds}
    IN  IF \E i \in 1..Len(t) : t[i] = "garbage" THEN "none"
        ELSE IF result_lines = {} THEN "none"
        ELSE t[CHOOSE i \in result_lines : \A j \in result_lines : j <= i]

\* prompt_claude_code, after subprocess.run has returned
AgentPromptResponse(rc, t) ==
    LET result_message == parse_jsonl_output(t)
    IN  IF rc = 0
        THEN IF result_message # "none"
             THEN IF result_message = "error_during_execution"
                  THEN [outcome |-> "returned", output |-> "error_msg",
                        success |-> FALSE, session_id |-> "session"]
                  ELSE [outcome |-> "returned", output |-> "result_text",
                        success |-> result_message # "result_is_error",
                        session_id |-> "session"]
             ELSE [outcome |-> "returned", output |-> "raw_output",
                   success |-> TRUE, session_id |-> None]
        ELSE [outcome |-> "returned", output |-> "error_msg",
              success |-> FALSE, session_id |-> None]

\* subprocess.run starts the program and waits for it, with no timeout
StartProcess(f) ==
    /\ call' = f
    /\ proc' = "running"
    /\ agent_pc' = "waiting"
    /\ UNCHANGED <<returncode, transcript, response>>

\* prompt_claude_code up to subprocess.run: the CLAUDE_PATH --version check
\* fails and an error response is returned, or the agent is started
prompt_claude_code ==
    /\ agent_pc = "idle"
    /\ \E installed \in BOOLEAN :
         IF installed
         THEN StartProcess("prompt_claude_code")
         ELSE /\ call' = "prompt_claude_code"
              /\ agent_pc' = "returned"
              /\ response' = [outcome |-> "returned", output |-> "error_msg",
                              success |-> FALSE, session_id |-> None]
              /\ UNCHANGED <<proc, returncode, transcript>>
    /\ UNCHANGED otherThanAgent

\* push_branch up to subprocess.run
push_branch ==
    /\ agent_pc = "idle"
    /\ StartProcess("push_branch")
    /\ UNCHANGED otherThanAgent

\* make_issue_comment up to subprocess.run
make_issue_comment ==
    /\ agent_pc = "idle"
    /\ StartProcess("make_issue_comment")
    /\ UNCHANGED otherThanAgent

\* the external program ends; the agent has written its output file
process_exits ==
    /\ proc = "running"
    /\ proc' = "exited"
    /\ returncode' \in ReturnCodes
    /\ transcript' \in IF call = "prompt_claude_code" THEN Transcripts ELSE {<<>>}
    /\ UNCHANGED <<agent_pc, call, response>>
    /\ UNCHANGED otherThanAgent

\* subprocess.run returns in prompt_claude_code
prompt_claude_code_returns ==
    /\ agent_pc = "waiting"
    /\ call = "prompt_claude_code"
    /\ proc = "exited"
    /\ response' = AgentPromptResponse(returncode, transcript)
    /\ agent_pc' = "returned"
    /\ UNCHANGED <<call, proc, returncode, transcript>>
    /\ UNCHANGED otherThanAgent

\* subprocess.run returns in push_branch: (True, None) or (False, stderr)
push_branch_returns ==
    /\ agent_pc = "waiting"
    /\ call = "push_branch"
    /\ proc = "exited"
    /\ response' = [outcome |-> "returned",
                    output |-> IF returncode # 0 THEN "stderr" ELSE None,
                    success |-> returncode = 0, session_id |-> None]
    /\ agent_pc' = "returned"
    /\ UNCHANGED <<call, proc, returncode, transcript>>
    /\ UNCHANGED otherThanAgent

\* subprocess.run returns in make_issue_comment: None, or RuntimeError
make_issue_comment_returns ==
    /\ agent_pc = "waiting"
    /\ call = "make_issue_comment"
    /\ proc = "exited"
    /\ response' = [outcome |-> IF returncode = 0 THEN "returned" ELSE "raised",
                    output |-> IF returncode # 0 THEN "stderr" ELSE None,
                    success |-> returncode = 0, session_id |-> None]
    /\ agent_pc' = "returned"
    /\ UNCHANGED <<call, proc, returncode, transcript>>
    /\ UNCHANGED otherThanAgent

InitAgent ==
    /\ TestIdle
    /\ SchedIdle
    /\ TriggerIdle
    /\ StoreIdle
    /\ RunIdle
    /\ ConcIdle
    /\ AgentIdle
    /\ ClassifyIdle
    /\ OrchIdle

CallerStep ==
    \/ prompt_claude_code
    \/ push_branch
    \/ make_issue_comment
    \/ prompt_claude_code_returns
    \/ push_branch_returns
    \/ make_issue_comment_returns

NextAgent ==
    \/ prompt_claude_code
    \/ push_branch
    \/ make_issue_comment
    \/ process_exits
    \/ prompt_claude_code_returns
    \/ push_branch_returns
    \/ make_issue_comment_returns

\* one call of an external program
SpecAgent == InitAgent /\ [][NextAgent]_vars

\* the caller's own steps are taken when they can be; nothing makes the
\* external program end
FairSpecAgent == SpecAgent /\ WF_vars(CallerStep)

\* C19: when the agent process has ended and its output file holds no
\* message of type "result", prompt_claude_code returns success=false with
\* a diagnostic message and no session id
C19_NoResultIsFailure ==
    (/\ agent_pc = "returned"
     /\ call = "prompt_claude_code"
     /\ proc = "exited"
     /\ \A i \in 1..Len(transcript) : transcript[i] \notin ResultKinds) =>
        /\ response.success = FALSE
        /\ response.output = "error_msg"
        /\ response.session_id = None

\* C20: every call of the agent, of git push and of gh that waits for its
\* external program eventually returns to its caller
C20_CallsEventuallyReturn ==
    (agent_pc = "waiting") ~> (agent_pc = "returned")

\* --------------------------------------------------------------------------
\* The values returned by run_e2e_tests_with_resolution
\* (adw_test.py:955-1118)

\* C28: when run_e2e_tests_with_resolution returns, the passed count and
\* the failed count are not negative and add up to the number of results
\* it returns
C28_E2ECountsMatchResults ==
    pc = "e2e_exit" =>
        /\ e2e_passed_count >= 0
        /\ e2e_failed_count >= 0
        /\ e2e_passed_count + e2e_failed_count = Len(e2e_results)

\* --------------------------------------------------------------------------
(* mvp_parser.py: analyze_dependencies *)

\* largest number of chunks in a document handed to parse_mvp_spec
MaxParsed == 2

\* largest number of mentions of a chunk ("... Chunk N") in a document
MaxMentions == 2

\* dep_patterns, in the order the function tries them
dep_patterns == <<"depends on", "requires", "after", "builds on">>

\* the phrasings of dep_patterns that make a named chunk a dependency
Markers == {dep_patterns[k] : k \in DOMAIN dep_patterns}

\* One mention of a chunk in a text: the number named after the word
\* "Chunk" and the phrasing that precedes it ("see" stands for any wording
\* that is none of the dep_patterns, as in "depends on Chunk 1 and Chunk 2")
Mentions == [marker : Markers \cup {"see"}, chunk : 1..MaxParsed]

\* The text of a chunk, as far as chunk numbers go: its mentions in the
\* order of the text
RawContents == UNION {[1..k -> Mentions] : k \in 0..MaxMentions}

\* Chunks as parse_chunks builds them: chunk i of the document carries the
\* number i, no dependency yet, and its text in raw_content
ParsedChunks(n, r) ==
    [i \in 1..n |-> [chunk_number |-> i, depends_on |-> <<>>, raw_content |-> r[i]]]

\* re.finditer(pattern, content): the numbers named with one phrasing, in
\* the order of the text
Matches(content, pattern) ==
    LET hits == SelectSeq(content, LAMBDA x : x.marker = pattern)
    IN [k \in DOMAIN hits |-> hits[k].chunk]

\* if chunk_num not in deps: deps.append(chunk_num), over a list of numbers
RECURSIVE AppendNew(_, _)
AppendNew(deps, nums) ==
    IF nums = <<>>
    THEN deps
    ELSE AppendNew(IF \E k \in DOMAIN deps : deps[k] = Head(nums)
                   THEN deps
                   ELSE Append(deps, Head(nums)),
                   Tail(nums))

\* sorted(deps), by insertion
RECURSIVE sorted(_)
sorted(q) ==
    IF q = <<>>
    THEN <<>>
    ELSE LET rest == sorted(Tail(q))
             lower == SelectSeq(rest, LAMBDA x : x <= Head(q))
             higher == SelectSeq(rest, LAMBDA x : x > Head(q))
         IN lower \o <<Head(q)>> \o higher

\* mutant: the first phrasing that matches takes precedence over the others
extract_first_phrasing(content) ==
    LET found == {k \in DOMAIN dep_patterns : Matches(content, dep_patterns[k]) # <<>>}
    IN IF found = {}
       THEN <<>>
       ELSE sorted(AppendNew(<<>>,
                Matches(content, dep_patterns[CHOOSE k \in found : \A j \in found : k <= j])))

\* extract_explicit_dependencies: the numbers named after each of the
\* dep_patterns in turn, each once, sorted
extract_explicit_dependencies(content) ==
    sorted(AppendNew(AppendNew(AppendNew(AppendNew(<<>>,
        Matches(content, dep_patterns[1])),
        Matches(content, dep_patterns[2])),
        Matches(content, dep_patterns[3])),
        Matches(content, dep_patterns[4])))

\* the for loop of analyze_dependencies over the whole list
AnalyzedChunks(cs) ==
    [i \in DOMAIN cs |->
        LET explicit_deps == extract_explicit_dependencies(cs[i].raw_content)
        IN [cs[i] EXCEPT !.depends_on =
               IF explicit_deps # <<>>
               THEN explicit_deps
               ELSE IF i > 1 THEN <<cs[i - 1].chunk_number>> ELSE @]]

\* chunks = analyze_dependencies(chunks) in parse_mvp_spec
analyze_dependencies ==
    /\ sched_pc = "parsed"
    /\ chunks' = AnalyzedChunks(chunks)
    /\ sched_pc' = "analyzed"
    /\ UNCHANGED <<execution_groups, executed, sched_result, remaining>>
    /\ UNCHANGED otherThanSched

\* a document of up to MaxParsed chunks whose mentions, MaxMentions at most,
\* are spread over the texts of its chunks
InitParse ==
    /\ TestIdle
    /\ TriggerIdle
    /\ StoreIdle
    /\ RunIdle
    /\ ConcIdle
    /\ AgentIdle
    /\ ClassifyIdle
    /\ OrchIdle
    /\ sched_pc = "parsed"
    /\ \E n \in 0..MaxParsed : \E text \in RawContents :
       \E end \in [0..n -> 0..Len(text)] :
           /\ end[0] = 0
           /\ end[n] = Len(text)
           /\ \A i \in 1..n : end[i - 1] <= end[i]
           /\ chunks = ParsedChunks(n, [i \in 1..n |->
                            SubSeq(text, end[i - 1] + 1, end[i])])
    /\ execution_groups = <<>>
    /\ executed = {}
    /\ sched_result = NoSchedule
    /\ remaining = <<>>

NextParse == analyze_dependencies

\* parse_mvp_spec from the parsed chunk list on
SpecParse == InitParse /\ [][NextParse]_vars

\* C29: after parsing, every dependency of every chunk is the number of a
\* chunk of the same document, and no chunk depends on itself
C29_DependenciesExistNoSelf ==
    sched_pc = "analyzed" =>
        \A i \in DOMAIN chunks :
            /\ SeqRange(chunks[i].depends_on) \subseteq ChunkNumbers
            /\ chunks[i].chunk_number \notin SeqRange(chunks[i].depends_on)

\* --------------------------------------------------------------------------
(* trigger_cron.py: a qualifying comment on an issue handled before *)

\* a poll cycle that launches a workflow for the newest comment of issue i
CronLaunch(i) ==
    /\ check_and_process_issues
    /\ cron_launches'[i][latest_comment[i].id] =
           cron_launches[i][latest_comment[i].id] + 1

\* C30: whenever the newest comment of an open issue is exactly "adw" or
\* "adw_test" and no launch was made for that comment id yet, a poll cycle
\* launches the workflow for it, whatever was processed for the issue
\* earlier in the session
C30_QualifyingCommentTriggers ==
    \A i \in Issues :
        (/\ ~shutdown_requested
         /\ TotalLaunches < MaxLaunches
         /\ latest_comment[i] # NoComment
         /\ latest_comment[i].body \in {"adw", "adw_test"}
         /\ issue_last_comment[i] # latest_comment[i].id
         /\ cron_launches[i][latest_comment[i].id] = 0)
        => ENABLED CronLaunch(i)

\* --------------------------------------------------------------------------
(* workflow_ops.py: classify_issue *)

\* largest number of words in the agent's answer to /classify_issue
MaxWords == 2

\* IssueClassSlashCommand
IssueClasses == {"/chore", "/bug", "/feature"}

\* no match of the pattern
NoMatch == "no match"

\* The words an answer is made of: the three commands, the "0" of the
\* template, a number with a digit 0, a word that starts like a command,
\* and any other word
AnswerWords == IssueClasses \cup {"0", "#10", "/bugfix", "text"}

\* the first match of r'(/chore|/bug|/feature|0)' inside one word
MatchInWord(w) ==
    CASE w \in IssueClasses -> w
      [] w = "/bugfix" -> "/bug"
      [] w \in {"0", "#10"} -> "0"
      [] OTHER -> NoMatch

\* mutant: the pattern has to match the whole output
re_fullmatch(output) ==
    IF Len(output) = 1 /\ output[1] \in IssueClasses \cup {"0"}
    THEN output[1]
    ELSE NoMatch

\* re.search(r'(/chore|/bug|/feature|0)', output): the leftmost match
re_search(output) ==
    LET hits == {j \in 1..Len(output) : MatchInWord(output[j]) # NoMatch}
    IN  IF hits = {}
        THEN NoMatch
        ELSE MatchInWord(output[CHOOSE j \in hits : \A k \in hits : j <= k])

\* what execute_template can give back: success or not, and the answer
ClassifierResponses ==
    [success : BOOLEAN,
     output : UNION {[1..n -> AnswerWords] : n \in 0..MaxWords}]

\* the body of classify_issue after execute_template returned
ClassifyResult(resp) ==
    IF ~resp.success
    THEN [issue_command |-> None, error |-> "response.output"]
    ELSE LET classification_match == re_search(resp.output)
             issue_command == IF classification_match # NoMatch
                              THEN <<classification_match>>
                              ELSE resp.output
         IN  IF issue_command = <<"0">>
             THEN [issue_command |-> None, error |-> "No command selected"]
             ELSE IF \A k \in IssueClasses : issue_command # <<k>>
             THEN [issue_command |-> None, error |-> "Invalid command selected"]
             ELSE [issue_command |-> issue_command[1], error |-> None]

\* classify_issue returns
classify_issue ==
    /\ classification = NoClassification
    /\ classification' = ClassifyResult(classifier_response)
    /\ UNCHANGED classifier_response
    /\ UNCHANGED otherThanClassify

InitClassify ==
    /\ TestIdle
    /\ SchedIdle
    /\ TriggerIdle
    /\ StoreIdle
    /\ RunIdle
    /\ ConcIdle
    /\ AgentIdle
    /\ OrchIdle
    /\ classifier_response \in ClassifierResponses
    /\ classification = NoClassification

NextClassify == classify_issue

\* one call of classify_issue
SpecClassify == InitClassify /\ [][NextClassify]_vars

\* C24 as stated: a change kind is returned exactly when the agent's output
\* is one recognized command and nothing else; every other output gives a
\* classification failure and no change kind
C24_OnlyExactTokenClassifies ==
    classification # NoClassification =>
        /\ classification.issue_command # None <=>
               (/\ classifier_response.success
                /\ Len(classifier_response.output) = 1
                /\ classifier_response.output[1] \in IssueClasses)
        /\ classification.issue_command = None => classification.error # None

\* the words of the output before word j hold no command and no "0"
NothingBefore(output, j) ==
    \A k \in 1..(j - 1) : MatchInWord(output[k]) = NoMatch

\* C24, as classify_issue behaves: a change kind is returned exactly when
\* the agent call succeeded and the first occurrence of "/chore", "/bug",
\* "/feature" or "0" anywhere in the output is one of the three commands;
\* that command is returned whatever text surrounds or follows it.  In
\* every other case (the agent failed, a "0" comes first, also as a digit
\* of a number, or there is no occurrence at all) the result is a
\* classification failure with a message and no change kind.
C24_FirstTokenClassifies ==
    classification # NoClassification =>
        LET output == classifier_response.output
            leading == {j \in 1..Len(output) :
                           /\ MatchInWord(output[j]) \in IssueClasses
                           /\ NothingBefore(output, j)}
        IN  /\ classification.issue_command # None <=>
                   (classifier_response.success /\ leading # {})
            /\ classification.issue_command # None =>
                   /\ \E j \in leading :
                          classification.issue_command = MatchInWord(output[j])
                   /\ classification.error = None
            /\ classification.issue_command = None =>
                   classification.error \in {"response.output", "No command selected",
                                             "Invalid command selected"}

\* C24 witness: the command is returned although a word precedes it
C24_Witness ==
    /\ classifier_response.success
    /\ classifier_response.output = <<"text", "/bug">>
    /\ classification = [issue_command |-> "/bug", error |-> None]

\* --------------------------------------------------------------------------
(* adw_build.py, adw_test.py: one phase invoked on any state file *)

\* uv run adw_<phase>.py <issue-number> <adw-id> with no controller: Build
\* and Test on a run without a state file or with any saved record, Plan on
\* a run that has no branch yet
InitPhase ==
    /\ TestIdle
    /\ SchedIdle
    /\ TriggerIdle
    /\ ConcIdle
    /\ AgentIdle
    /\ ClassifyIdle
    /\ OrchIdle
    /\ state = NoState
    /\ store_op = "idle"
    /\ kwargs = NoKwargs
    /\ prev_data = NoState.data
    /\ state_file \in {NoFile} \cup SavedRecords
    /\ saved_record = state_file
    /\ run_pc = "resumed"
    /\ pipeline = "none"
    /\ \E p \in PhaseNames :
         /\ running = {p}
         /\ p = "plan" => state_file \in {NoFile, EnsuredRecord}
    /\ started = {}
    /\ phase_rc = NoRc
    /\ pipeline_rc = -1
    /\ env = NoEnv
    /\ resumed = TRUE
    /\ events = <<>>

NextPhaseRun ==
    \/ adw_plan
    \/ adw_build
    \/ adw_test

\* one phase process from start to exit
SpecPhase == InitPhase /\ [][NextPhaseRun]_vars

\* phase p exits in this step, and its script was started
Exits(p) == p \in running /\ p \notin running' /\ env'.tools # "uv"

\* the elements of a sequence
Done(ev) == {ev[i] : i \in DOMAIN ev}

\* agent calls, commits and pushes
AgentCommitPush(ev) ==
    {x \in Done(ev) : x[1] \in {"agent", "/commit"} \/ x \in {<<"git", "commit">>, <<"git", "push">>}}

C22_CheckoutFallsBackToRemote ==
    \A i \in DOMAIN events :
        events[i] = <<"git", "checkout failed">> =>
            /\ i < Len(events)
            /\ events[i + 1][1] = "git"
            /\ events[i + 1][2] \in {"checkout -b origin", "checkout -b origin failed"}

\* C23: every non-zero exit of the Build or the Test script comes after a
\* comment on the issue that carries the diagnostic, posted in the same
\* invocation
C23_FailureCommentBeforeExit ==
    \A p \in {"build", "test"} :
        (phase_rc[p] \notin {0, -1} /\ env.tools # "uv") =>
            \E i \in DOMAIN events : events[i][1] = "error comment"

\* the phase asked classify_issue and got an error
ClassifyFailed(p) ==
    /\ Exits(p)
    /\ <<"agent", "/classify_issue">> \in Done(events')
    /\ IF p = "plan" THEN env'.tools = "classify" ELSE ~env'.classify_ok

\* C25: a classification failure does not end Build or Test, which go on
\* to the commit with /feature and with /chore and exit as they would have;
\* in create_or_find_branch, where the change kind names the new branch,
\* the failure is returned as an error and the phase ends
C25_ClassificationFailureDefaults ==
    [][/\ ClassifyFailed("build") =>
              /\ <<"/commit", "/feature">> \in Done(events')
              /\ env'.tools \in {"ok", "push", "pr_list", "pr_create"} =>
                     phase_rc'["build"] = 0
       /\ ClassifyFailed("test") =>
              /\ <<"/commit", "/chore">> \in Done(events')
              /\ phase_rc'["test"] = 0 <=>
                     env'.counts.failed_count + env'.counts.e2e_failed_count = 0
       /\ ClassifyFailed("plan") =>
              /\ phase_rc'["plan"] \notin {0, -1}
              /\ ErrorComment("Failed to classify issue") \in Done(events')
              /\ \A x \in Done(events') : x[1] # "/commit"]_vars

\* C25 witness: Test could not classify the issue, committed as /chore and
\* exited 0
C25_Witness ==
    /\ phase_rc["test"] = 0
    /\ ~env.classify_ok
    /\ <<"agent", "/classify_issue">> \in Done(events)
    /\ <<"/commit", "/chore">> \in Done(events)

\* the phase reached commit_changes or finalize_git_operations
Finalized(p) ==
    /\ phase_rc[p] # -1
    /\ env.tools \in {"commit", "push", "pr_list", "pr_create", "ok"}
    /\ \E x \in Done(events) : x[1] = "/commit"

InOrder(ev, a, b, c, d) ==
    \E i, j, k, l \in DOMAIN ev :
        /\ i < j /\ j < k /\ k < l
        /\ ev[i] \in a /\ ev[j] \in b /\ ev[k] \in c /\ ev[l] \in d

\* C27: when the retry loops of the Test phase end with failures, the
\* phase still runs the commit, posts the summary, pushes and reconciles
\* the pull request, saves the state, and only then comments the failure
\* and exits non-zero; it exits 0 exactly when failed_count and
\* e2e_failed_count are both 0
C27_TestFinishesThenExits ==
    (phase_rc["test"] # -1 /\ env.tools \notin {"uv", "setup", "git"}) =>
        LET failures == env.counts.failed_count + env.counts.e2e_failed_count
        IN  /\ phase_rc["test"] = 0 <=> failures = 0
            /\ failures > 0 =>
                   /\ phase_rc["test"] = 1
                   /\ InOrder(events,
                              {<<"/commit", k>> : k \in {"/chore", "/bug", "/feature"}},
                              {Comment("Test Results Summary")},
                              {<<"git", "push">>, <<"git", "push failed">>},
                              {<<"save", "adw_test">>})
                   /\ events[Len(events)] =
                          ErrorComment("Test suite completed with failures")
                   /\ events[Len(events) - 1] = <<"save", "adw_test">>
                   /\ <<"git", "push">> \in Done(events) =>
                          \E x \in Done(events) :
                              x \in {Comment("Pull request"), <<"gh", "pr create">>,
                                     <<"gh", "pr create failed">>}
                   /\ state_file # NoFile

\* C27 witness: the end-to-end loop ended with a failure; Test committed,
\* posted the summary, pushed, linked the pull request, saved and exited 1
C27_Witness ==
    /\ phase_rc["test"] = 1
    /\ env.counts.e2e_failed_count = 1
    /\ env.tools = "ok"
    /\ <<"git", "push">> \in Done(events)
    /\ Comment("Pull request") \in Done(events)
    /\ events[Len(events)] = ErrorComment("Test suite completed with failures")

---------------------------------------------------------------------------
(* adw_test.py: the retry decisions of the two loops *)

\* a failing item of the batch carries the marker FORMAT_RETRY_NEEDED
FormatFailureIn(rs) ==
    \E i \in DOMAIN rs : ~rs[i].passed /\ rs[i].error = FormatError

\* C31: in the end-to-end loop, when a failing item of the batch carries
\* FORMAT_RETRY_NEEDED and attempts remain, the attempt makes no resolver
\* call: the loop goes straight back to its head with attempts left, and the
\* only step it takes there is the next execution of the batch.
C31_FormatRetrySkipsResolver ==
    [][/\ (pc = "e2e_check" /\ attempt < max_attempts
              /\ FormatFailureIn(e2e_results))
          => /\ pc' = "e2e_loop"
             /\ attempt' < max_attempts'
             /\ resolver_calls' = resolver_calls
       /\ (pc = "e2e_loop" /\ attempt < max_attempts)
          => /\ batches' = batches + 1
             /\ resolver_calls' = resolver_calls]_vars

\* C31 witness: the batch runs a second time after a formatting failure and
\* no resolver has been called
C31_Witness ==
    /\ pc = "e2e_items"
    /\ attempt = 2
    /\ batches = 2
    /\ previous_errors = {FormatError}
    /\ resolver_calls = 0

\* the error texts of the failing items of a batch
FailingErrors(rs) ==
    {e \in ErrorTexts : \E i \in DOMAIN rs : ~rs[i].passed /\ rs[i].error = e}

\* C32: in the end-to-end loop, when attempts remain and an error text of
\* the previous attempt is absent from the errors of the current failing
\* attempt, the loop does not stop: it comes back to its head with attempts
\* left, through the resolution round or past it, even when the round ends
\* with zero successes, and there it runs the batch again.
C32_FixedErrorRetries ==
    [][/\ (/\ pc = "e2e_check"
           /\ attempt < max_attempts
           /\ \E i \in DOMAIN e2e_results : ~e2e_results[i].passed
           /\ previous_errors \ FailingErrors(e2e_results) # {})
          => /\ pc' \in {"e2e_loop", "e2e_resolve"}
             /\ fixed_errors' = previous_errors \ FailingErrors(e2e_results)
             /\ attempt' < max_attempts'
       /\ (pc = "e2e_resolve" /\ fixed_errors # {})
          => /\ pc' \in {"e2e_resolve", "e2e_loop"}
             /\ fixed_errors' = fixed_errors
             /\ attempt' < max_attempts'
       /\ (pc = "e2e_loop" /\ attempt < max_attempts)
          => /\ batches' = batches + 1
             /\ pc' \in {"e2e_items", "e2e_check"}]_vars

\* C32 witness: the third batch runs after a round without a success,
\* because an error of the attempt before had gone
C32_Witness ==
    /\ pc = "e2e_items"
    /\ batches = 3
    /\ resolver_calls > 0
    /\ prev_resolved = 0
    /\ fixed_errors # {}

\* C33: in the unit-test loop a resolution round with zero resolver
\* successes ends the loop, whatever the number of attempts left: the
\* function returns and runs no further batch.
C33_UnitZeroResolvedEnds ==
    [][/\ (pc = "unit_resolve" /\ idx >= Len(failed_tests) /\ resolved_count = 0)
          => pc' = "unit_exit"
       /\ pc = "unit_exit"
          => /\ pc' = "main_unit_done"
             /\ batches' = 0
             /\ results' = results]_vars

\* C33 witness: the loop ended after a round without a success although
\* attempts were left
C33_Witness ==
    /\ pc = "unit_exit"
    /\ attempt < max_attempts
    /\ failed_count > 0
    /\ resolver_calls > 0
    /\ prev_resolved = 0
    /\ ~agent_error

ResolvePcs == {"unit_resolve", "e2e_resolve"}

\* the failing items a resolution round is given: every failing unit test;
\* every failing end-to-end item without the formatting marker
HandedOver(at, rs, ers) ==
    IF at = "unit_resolve"
    THEN Cardinality({i \in DOMAIN rs : ~rs[i]})
    ELSE Cardinality({i \in DOMAIN ers :
                         ~ers[i].passed /\ ers[i].error # FormatError})

\* C34: a resolution round starts with both tallies at zero on the failing
\* items of the batch; each of its steps calls the resolver once, for the
\* next item in order, and adds one to exactly one tally; the round ends
\* only when every item had its call, with resolved_count + unresolved_count
\* equal to the number of items handed over.
C34_OneResolverCallPerItem ==
    [][/\ (pc \notin ResolvePcs /\ pc' \in ResolvePcs)
          => /\ idx' = 0
             /\ resolved_count' = 0
             /\ unresolved_count' = 0
             /\ Len(failed_tests') = HandedOver(pc', results', e2e_results')
       /\ (pc \in ResolvePcs /\ pc' = pc)
          => /\ idx < Len(failed_tests)
             /\ idx' = idx + 1
             /\ resolver_calls' = resolver_calls + 1
             /\ failed_tests' = failed_tests
             /\ resolved_count' + unresolved_count' = idx'
             /\ resolved_count' >= resolved_count
             /\ unresolved_count' >= unresolved_count
       /\ (pc \in ResolvePcs /\ pc' # pc)
          => /\ idx = Len(failed_tests)
             /\ resolved_count + unresolved_count = Len(failed_tests)
             /\ Len(failed_tests) = HandedOver(pc, results, e2e_results)
             /\ resolver_calls' = resolver_calls]_vars

\* C34 witness: a round over two failing unit tests ended with one resolved
\* and one unresolved, after two resolver calls
C34_Witness ==
    /\ pc = "unit_resolve"
    /\ idx = 2
    /\ Len(failed_tests) = 2
    /\ resolved_count = 1
    /\ unresolved_count = 1
    /\ resolver_calls = 2

---------------------------------------------------------------------------
(* adw_test.py: run_e2e_tests, one batch of the end-to-end loop *)

\* largest number of test files run_e2e_tests finds for one issue
MaxFiles == 2

\* run_e2e_tests has found its files and enters the for loop, in any
\* attempt of the loop; a later attempt follows a formatting failure
InitBatch ==
    /\ pc = "e2e_items"
    /\ skip_e2e = FALSE
    /\ max_attempts \in 1..MaxAttempts
    /\ attempt \in 1..max_attempts
    /\ results = <<>>
    /\ passed_count = 0
    /\ failed_count = 0
    /\ test_response = "ok"
    /\ failed_tests = <<>>
    /\ idx = 0
    /\ resolved_count = 0
    /\ unresolved_count = 0
    /\ e2e_files \in 1..MaxFiles
    /\ e2e_results = <<>>
    /\ e2e_passed_count = 0
    /\ e2e_failed_count = IF attempt = 1 THEN 0 ELSE 1
    /\ previous_errors = IF attempt = 1 THEN {} ELSE {FormatError}
    /\ fixed_errors = {}
    /\ exit_code = -1
    /\ success_comment = FALSE
    /\ batches = attempt
    /\ resolver_calls = 0
    /\ agent_error = FALSE
    /\ err_resolver_calls = 0
    /\ prev_failed = 0
    /\ prev_resolved = 0
    /\ rounds = 0
    /\ SchedIdle
    /\ TriggerIdle
    /\ StoreIdle
    /\ RunIdle
    /\ ConcIdle
    /\ AgentIdle
    /\ ClassifyIdle
    /\ OrchIdle

\* the for loop of run_e2e_tests and what the retry loop makes of its result
NextBatch ==
    \/ ExecuteSingleE2ETest
    \/ CheckE2EResults

SpecBatch == InitBatch /\ [][NextBatch]_vars

\* every item of rs but the last passed
OnlyLastMayFail(rs) == \A i \in DOMAIN rs : ~rs[i].passed => i = Len(rs)

\* C35: within one end-to-end attempt the items run one after another, each
\* step adding the result of the next file to the list; an item runs only
\* while every item before it passed and a file is left, so the results
\* hold at most one failing item, and it is the last.
C35_BatchStopsAtFirstFailure ==
    [][/\ pc = "e2e_items"
          => /\ \A i \in DOMAIN e2e_results : e2e_results[i].passed
             /\ Len(e2e_results) < e2e_files
             /\ Len(e2e_results') = Len(e2e_results) + 1
             /\ SubSeq(e2e_results', 1, Len(e2e_results)) = e2e_results
             /\ pc' = "e2e_items"
                    <=> /\ e2e_results'[Len(e2e_results')].passed
                        /\ Len(e2e_results') < e2e_files
       /\ pc = "e2e_check" => e2e_results' = e2e_results
       /\ OnlyLastMayFail(e2e_results')]_vars

\* C35 witness: of two files the first failed and the second was not run
C35_Witness ==
    /\ pc = "e2e_check"
    /\ e2e_files = 2
    /\ Len(e2e_results) = 1
    /\ ~e2e_results[1].passed

---------------------------------------------------------------------------
(* adw_test.py: the bound on resolution rounds *)

\* resolution rounds of the invocation, the one in progress included
RoundsStarted == rounds + (IF pc \in ResolvePcs THEN 1 ELSE 0)

\* C36: in both loops the resolver runs only after a batch that is not the
\* last permitted one: once attempt has reached max_attempts no resolver call
\* is made and no round ends, and an invocation has at most
\* max_attempts - 1 resolution rounds.
C36_NoResolutionAfterFinalBatch ==
    [][/\ (pc \in UnitPcs \cup E2EPcs /\ attempt >= max_attempts)
          => /\ pc \notin ResolvePcs
             /\ pc' \notin ResolvePcs
             /\ resolver_calls' <= resolver_calls
             /\ rounds' <= rounds
       /\ pc' \in ResolvePcs => attempt' < max_attempts'
       /\ pc' \in UnitPcs \cup E2EPcs
          => \/ RoundsStarted' = 0
             \/ RoundsStarted' <= max_attempts' - 1]_vars

\* C36 witness: the third and last permitted batch of the unit loop failed
\* after two resolution rounds, and the loop ended without a third round
C36_Witness ==
    /\ pc = "unit_exit"
    /\ max_attempts = 3
    /\ attempt = 3
    /\ failed_count > 0
    /\ rounds = 2

---------------------------------------------------------------------------
(* mvp_parser.py: what analyze_dependencies gives each chunk *)

\* the chunk numbers a text names with one of the four phrasings
NamedExplicitly(content) ==
    {content[k].chunk : k \in {j \in DOMAIN content : content[j].marker \in Markers}}

StrictlyAscending(q) == \A i, j \in DOMAIN q : i < j => q[i] < q[j]

---------------------------------------------------------------------------
(* mvp_parser.py: when get_parallel_chunks raises *)

\* C38: get_parallel_chunks raises the circular-dependency error only when
\* the depends_on edges hold a cycle; for every chunk list without a cycle
\* it ends by returning a schedule.
C38_RaisesOnlyOnCycle ==
    sched_pc \in {"returned", "raised"} =>
        /\ sched_pc = "raised" => HasCycle
        /\ ~HasCycle => sched_result # NoSchedule

---------------------------------------------------------------------------
(* trigger_cron.py: a launch that failed *)

\* C39: when the launch for the newest comment of an issue has failed (a
\* launch was made for it and the issue did not enter processed_issues) and
\* the comment is still the newest one, a later poll cycle launches the
\* workflow for it again
C39_FailedLaunchIsRetried ==
    \A i \in Issues :
        (/\ ~shutdown_requested
         /\ TotalLaunches < MaxLaunches
         /\ latest_comment[i] # NoComment
         /\ latest_comment[i].body \in {"adw", "adw_test"}
         /\ cron_launches[i][latest_comment[i].id] >= 1
         /\ i \notin processed_issues)
        => ENABLED CronLaunch(i)

---------------------------------------------------------------------------
(* adw_mvp_orchestrator.py: main *)

\* largest number of issues labelled mvp
MaxMvpIssues == 2

\* the chunk number of an issue's chunk-N label; 0 for an issue without such
\* a label (chunk_num None) and for the label chunk-0
ChunkLabels == 0..MaxMvpIssues

\* chunk_issues.sort(key=lambda x: x["chunk"]): stable, by insertion
RECURSIVE sort_by_chunk(_)
sort_by_chunk(q) ==
    IF q = <<>>
    THEN <<>>
    ELSE LET rest == sort_by_chunk(Tail(q))
             lower == SelectSeq(rest, LAMBDA x : x.chunk < Head(q).chunk)
             higher == SelectSeq(rest, LAMBDA x : x.chunk >= Head(q).chunk)
         IN lower \o <<Head(q)>> \o higher

\* get_chunk_issues on the list gh returned: issue k of the list has
\* number k; issues without a chunk number are left out
get_chunk_issues(listed) ==
    sort_by_chunk(SelectSeq([k \in DOMAIN listed |-> [number |-> k, chunk |-> listed[k]]],
                            LAMBDA x : x.chunk # 0))

\* issues = [iss for iss in issues if iss["chunk"] >= start_from]
FromStart(list, from) == SelectSeq(list, LAMBDA x : x.chunk >= from)

\* lines 332-369: the arguments are parsed and the issues fetched; a failing
\* gh issue list ends the script with exit code 1
FetchChunkIssues ==
    /\ orch_pc = "start"
    /\ \E fetched \in BOOLEAN :
         IF fetched
         THEN /\ chunk_issues' = FromStart(get_chunk_issues(gh_issues), start_from)
              /\ orch_pc' = "loop"
              /\ orch_rc' = orch_rc
         ELSE /\ chunk_issues' = chunk_issues
              /\ orch_pc' = "exited"
              /\ orch_rc' = 1
    /\ UNCHANGED <<start_from, auto_merge, gh_issues, loop_idx, completed,
                   failed_chunks, skipped, handled>>
    /\ UNCHANGED otherThanOrch

\* what one iteration of the for loop does to the three lists and whether
\* it leaves the loop (lines 384-484); status is what check_issue_status
\* returned, merged, pulled, pulled_after, success and pr_found what merge_pr,
\* the two pull_latest_main calls, run_chunk and get_pr_for_issue returned
Iteration(chunk_num, status, merged, pulled, pulled_after, success, pr_found) ==
    LET done == [completed |-> completed, failed |-> failed_chunks,
                 skipped |-> skipped, break |-> FALSE]
        complete(r) == [r EXCEPT !.completed = Append(@, chunk_num)]
        fail(r) == [r EXCEPT !.failed = Append(@, chunk_num), !.break = TRUE]
        skip(r) == [r EXCEPT !.skipped = Append(@, chunk_num)]
    IN IF status = "closed"
       THEN skip(done)
       ELSE IF status = "has_pr"
       THEN IF auto_merge
            THEN IF merged
                 THEN IF ~pulled_after
                      THEN fail(complete(done))
                      ELSE complete(done)
                 ELSE skip(done)
            ELSE skip(done)
       ELSE IF ~pulled
       THEN fail(done)
       ELSE IF ~success
       THEN fail(done)
       ELSE IF pr_found /\ auto_merge
       THEN IF merged
            THEN IF ~pulled_after THEN fail(done) ELSE complete(done)
            ELSE fail(done)
       ELSE complete(done)

\* one iteration of the for loop over the issues
HandleChunk ==
    /\ orch_pc = "loop"
    /\ loop_idx < Len(chunk_issues)
    /\ LET chunk_num == chunk_issues[loop_idx + 1].chunk
       IN /\ handled' = Append(handled, chunk_num)
          /\ \E status \in {"closed", "has_pr", "pending"} :
             \E merged, pulled, pulled_after, success, pr_found \in BOOLEAN :
               LET r == Iteration(chunk_num, status, merged, pulled,
                                  pulled_after, success, pr_found)
               IN /\ completed' = r.completed
                  /\ failed_chunks' = r.failed
                  /\ skipped' = r.skipped
                  /\ orch_pc' = IF r.break THEN "summary" ELSE "loop"
    /\ loop_idx' = loop_idx + 1
    /\ UNCHANGED <<start_from, auto_merge, gh_issues, chunk_issues, orch_rc>>
    /\ UNCHANGED otherThanOrch

\* the for loop is exhausted
LoopExhausted ==
    /\ orch_pc = "loop"
    /\ ~(loop_idx < Len(chunk_issues))
    /\ orch_pc' = "summary"
    /\ UNCHANGED <<start_from, auto_merge, gh_issues, chunk_issues, loop_idx,
                   completed, failed_chunks, skipped, handled, orch_rc>>
    /\ UNCHANGED otherThanOrch

\* lines 486-520: the summary is printed; sys.exit(1) if a chunk failed
Summary ==
    /\ orch_pc = "summary"
    /\ orch_pc' = "exited"
    /\ orch_rc' = IF failed_chunks # <<>> THEN 1 ELSE 0
    /\ UNCHANGED <<start_from, auto_merge, gh_issues, chunk_issues, loop_idx,
                   completed, failed_chunks, skipped, handled>>
    /\ UNCHANGED otherThanOrch

\* the orchestrator is started with any arguments on any list of mvp issues
InitOrch ==
    /\ TestIdle
    /\ SchedIdle
    /\ TriggerIdle
    /\ StoreIdle
    /\ RunIdle
    /\ ConcIdle
    /\ AgentIdle
    /\ ClassifyIdle
    /\ orch_pc = "start"
    /\ start_from \in 1..MaxMvpIssues
    /\ auto_merge \in BOOLEAN
    /\ \E n \in 0..MaxMvpIssues : gh_issues \in [1..n -> ChunkLabels]
    /\ chunk_issues = <<>>
    /\ loop_idx = 0
    /\ completed = <<>>
    /\ failed_chunks = <<>>
    /\ skipped = <<>>
    /\ handled = <<>>
    /\ orch_rc = -1

NextOrch ==
    \/ FetchChunkIssues
    \/ HandleChunk
    \/ LoopExhausted
    \/ Summary

SpecOrch == InitOrch /\ [][NextOrch]_vars

\* C40: the orchestrator handles the chunks in ascending chunk order, begins
\* no chunk once a chunk is in the failed list, and at the summary no chunk
\* number stands in more than one of the lists completed, failed and skipped
C40_OrderedFailFastDisjoint ==
    /\ \A i, j \in DOMAIN handled : i < j => handled[i] <= handled[j]
    /\ failed_chunks # <<>> =>
           /\ orch_pc \in {"summary", "exited"}
           /\ failed_chunks = <<handled[Len(handled)]>>
    /\ orch_pc \in {"summary", "exited"} =>
           /\ SeqRange(completed) \cap SeqRange(failed_chunks) = {}
           /\ SeqRange(completed) \cap SeqRange(skipped) = {}
           /\ SeqRange(failed_chunks) \cap SeqRange(skipped) = {}

====
